---- MODULE Spec2Model ----
(***************************************************************************)
(* Layout, cursor and handle engine of the N-dimensional array library     *)
(* (include/computoc/array.h).                                             *)
(*                                                                         *)
(* C++ containers are 0-indexed, TLA+ sequences are 1-indexed: the entry   *)
(* the code calls x[i] is x[i + 1] here.  Axis numbers, subscripts and     *)
(* flat positions keep the code's 0-based values.                          *)
(***************************************************************************)
EXTENDS Integers, Sequences, FiniteSets, TLC

(***************************************************************************)
(* Bounds of the model.                                                    *)
(***************************************************************************)
MaxRank == 3
MaxDim == 3
MaxCount == 6
MaxDepth == 2
MaxSetup == 2
MaxSlices == 1
MaxStep == 4
MaxLife == 3
MaxBuffers == 3

Min(a, b) == IF a < b THEN a ELSE b

Max(a, b) == IF a > b THEN a ELSE b

\* All sequences over S of length lo..hi.
SeqsOf(S, lo, hi) == UNION {[1..n -> S] : n \in lo..hi}

RECURSIVE SumTo(_, _)
SumTo(f, n) == IF n = 0 THEN 0 ELSE f[n] + SumTo(f, n - 1)

RECURSIVE ProdTo(_, _)
ProdTo(f, n) == IF n = 0 THEN 1 ELSE f[n] * ProdTo(f, n - 1)

\* Sum and product of the entries of a sequence.
SumOver(f) == SumTo(f, Len(f))

ProdOver(f) == ProdTo(f, Len(f))

(***************************************************************************)
(* Numeric helpers (computoc/math.h, computoc/utils.h).                    *)
(***************************************************************************)
\* Euclidean modulo: the result is in [0, n) for n > 0.
modulo(v, n) == ((v % n) + n) % n

\* std::ceil((num + 0.0) / den) for den > 0.
CeilDiv(num, den) ==
    IF num >= 0 THEN (num + den - 1) \div den ELSE -((-num) \div den)

Interval(a, b, c) == [start |-> a, stop |-> b, step |-> c]

forward(iv) ==
    IF iv.step < 0 THEN Interval(iv.stop, iv.start, -iv.step) ELSE iv

modulo_interval(iv, n) == Interval(modulo(iv.start, n), modulo(iv.stop, n), iv.step)

(***************************************************************************)
(* Layout arithmetic.                                                      *)
(***************************************************************************)
RECURSIVE numel_from(_, _)
numel_from(dims, i) ==
    IF i > Len(dims) THEN 1
    ELSE IF dims[i] <= 0 THEN 0
    ELSE dims[i] * numel_from(dims, i + 1)

numel(dims) == IF dims = <<>> THEN 0 ELSE numel_from(dims, 1)

\* compute_strides(dims, strides): row-major strides of a shape.
compute_strides(dims) ==
    LET n == Len(dims)
        s[i \in 1..n] == IF i = n THEN 1 ELSE s[i + 1] * dims[i + 1]
    IN [i \in 1..n |-> s[i]]

\* The second loop of compute_strides(previous_dims, previous_strides,
\* intervals, strides): the strides of the axes without an interval.
rest_strides(previous_dims, k) ==
    LET n == Len(previous_dims)
        s[i \in (k + 1)..n] == IF i = n THEN 1 ELSE s[i + 1] * previous_dims[i + 1]
    IN s

\* compute_strides(previous_dims, previous_strides, intervals, strides),
\* for at most as many intervals as axes.
compute_strides_slice(previous_dims, previous_strides, intervals) ==
    LET n == Len(previous_strides)
        k == Len(intervals)
    IN [i \in 1..n |->
          IF i <= k THEN previous_strides[i] * forward(intervals[i]).step
          ELSE rest_strides(previous_dims, k)[i]]

\* The entries (0-based) of previous_strides that compute_strides(
\* previous_dims, previous_strides, intervals, strides) reads and of strides
\* that it writes: its first loop runs over all the intervals, its second
\* over the axes left without one.
strides_touched(previous_dims, previous_strides, intervals) ==
    IF Len(previous_strides) <= 0 THEN {}
    ELSE (0..(Len(intervals) - 1))
         \cup (IF Len(intervals) < Len(previous_dims)
               THEN Len(intervals)..(Len(previous_dims) - 1) ELSE {})

\* The entries (0-based) of previous_dims that compute_dims reads and of
\* dims that it writes.
dims_touched(previous_dims, intervals) == 0..(Len(previous_dims) - 1)

\* compute_dims: the dims of a slice, or <<>> where the code returns 0.
compute_dims(previous_dims, intervals) ==
    LET n == Len(previous_dims)
        c == Min(n, Len(intervals))
        iv(i) == forward(modulo_interval(intervals[i], previous_dims[i]))
    IN IF n <= 0 THEN <<>>
       ELSE IF \E i \in 1..c : iv(i).start > iv(i).stop \/ iv(i).step <= 0 THEN <<>>
       ELSE [i \in 1..n |->
               IF i <= c THEN CeilDiv(iv(i).stop - iv(i).start + 1, iv(i).step)
               ELSE previous_dims[i]]

RECURSIVE offset_from(_, _, _, _, _)
offset_from(previous_dims, previous_strides, intervals, i, c) ==
    IF i > c THEN 0
    ELSE previous_strides[i]
            * forward(modulo_interval(intervals[i], previous_dims[i])).start
         + offset_from(previous_dims, previous_strides, intervals, i + 1, c)

\* compute_offset as it would be without wrapping the interval bounds.
compute_offset_nowrap(previous_dims, previous_offset, previous_strides, intervals) ==
    previous_offset
    + SumOver([i \in 1..Min(Len(previous_dims), Len(intervals)) |->
                  previous_strides[i] * forward(intervals[i]).start])

compute_offset(previous_dims, previous_offset, previous_strides, intervals) ==
    IF previous_dims = <<>> \/ previous_strides = <<>> \/ intervals = <<>>
    THEN previous_offset
    ELSE previous_offset
         + offset_from(previous_dims, previous_strides, intervals, 1,
                       Min(Min(Len(previous_dims), Len(previous_strides)), Len(intervals)))

RECURSIVE subs2ind_from(_, _, _, _, _)
subs2ind_from(strides, dims, subs, i, ignored) ==
    IF i > Len(strides) THEN 0
    ELSE strides[i] * modulo(subs[i - ignored], dims[i])
         + subs2ind_from(strides, dims, subs, i + 1, ignored)

\* subs2ind as it would be without wrapping the subscripts.
subs2ind_nowrap(offset, strides, dims, subs) ==
    LET n == Len(strides)
        ignored == Max(n - Len(subs), 0)
    IN offset + SumOver([i \in 1..(n - ignored) |-> strides[i + ignored] * subs[i]])

\* subs2ind: the flat position of a subscript tuple.
subs2ind(offset, strides, dims, subs) ==
    IF Len(strides) = 0 \/ Len(dims) = 0 \/ Len(subs) = 0 THEN offset
    ELSE LET used == Min(Min(Len(strides), Len(dims)), Len(subs))
             ignored == Max(Len(strides) - used, 0)
         IN offset + subs2ind_from(strides, dims, subs, ignored + 1, ignored)

is_contained_in(sub_dims, dims) ==
    /\ Len(sub_dims) <= Len(dims)
    /\ LET z == Len(dims) - Len(sub_dims)
       IN \A i \in (z + 1)..Len(dims) : sub_dims[i - z] <= dims[i]

(***************************************************************************)
(* Array_header.                                                           *)
(***************************************************************************)
EmptyHeader(sub) ==
    [dims |-> <<>>, strides |-> <<>>, offset |-> 0, count |-> 0,
     is_subarray |-> sub, usable |-> FALSE]

\* Array_header(dims)
HeaderOfDims(dims) ==
    IF numel(dims) <= 0 THEN EmptyHeader(FALSE)
    ELSE [dims |-> dims, strides |-> compute_strides(dims), offset |-> 0,
          count |-> numel(dims), is_subarray |-> FALSE, usable |-> TRUE]

\* Array_header(previous_dims, previous_strides, previous_offset, intervals)
HeaderOfSlice(previous_dims, previous_strides, previous_offset, intervals) ==
    IF numel(previous_dims) <= 0 THEN EmptyHeader(TRUE)
    ELSE LET dims == compute_dims(previous_dims, intervals)
         IN IF dims = <<>> THEN EmptyHeader(TRUE)
            ELSE [dims |-> dims,
                  strides |-> compute_strides_slice(previous_dims, previous_strides, intervals),
                  offset |-> compute_offset(previous_dims, previous_offset,
                                            previous_strides, intervals),
                  count |-> numel(dims), is_subarray |-> TRUE, usable |-> TRUE]

\* A variant that omits the last axis for an omitted_axis that is not an axis.
HeaderOmitAxis_last(previous_dims, omitted_axis) ==
    IF numel(previous_dims) <= 0 THEN EmptyHeader(FALSE)
    ELSE LET n == Len(previous_dims)
             dims == IF n > 1 THEN SubSeq(previous_dims, 1, n - 1) ELSE <<1>>
         IN IF omitted_axis \in 0..(n - 1)
            THEN HeaderOfDims(IF n > 1
                              THEN [i \in 1..(n - 1) |->
                                      IF i - 1 < omitted_axis THEN previous_dims[i]
                                      ELSE previous_dims[i + 1]]
                              ELSE <<1>>)
            ELSE HeaderOfDims(dims)

\* Array_header(previous_dims, omitted_axis)
HeaderOmitAxis(previous_dims, omitted_axis) ==
    IF numel(previous_dims) <= 0 THEN EmptyHeader(FALSE)
    ELSE LET n == Len(previous_dims)
             axis == modulo(omitted_axis, n)
             dims == IF n > 1
                     THEN [i \in 1..(n - 1) |->
                             IF i - 1 < axis THEN previous_dims[i]
                             ELSE previous_dims[i + 1]]
                     ELSE <<1>>
         IN [dims |-> dims, strides |-> compute_strides(dims), offset |-> 0,
             count |-> numel(dims), is_subarray |-> FALSE, usable |-> TRUE]

\* Array_header(previous_dims, new_order), for an order with an entry for
\* every axis.
HeaderOfOrder(previous_dims, new_order) ==
    IF numel(previous_dims) <= 0 THEN EmptyHeader(FALSE)
    ELSE IF new_order = <<>> THEN EmptyHeader(FALSE)
    ELSE LET dims == [i \in 1..Len(previous_dims) |->
                         previous_dims[modulo(new_order[i], previous_dims[i]) + 1]]
         IN IF numel(previous_dims) # numel(dims) THEN EmptyHeader(FALSE)
            ELSE [dims |-> dims, strides |-> compute_strides(dims), offset |-> 0,
                  count |-> numel(dims), is_subarray |-> FALSE, usable |-> TRUE]

(***************************************************************************)
(* Array_subscripts_iterator.  Axis numbers are 0-based as in the code:    *)
(* the subscript of axis a is subs[a + 1].                                 *)
(***************************************************************************)
\* The default-constructed iterator (no subscripts).
NoIterator ==
    [nsubs |-> 0, subs |-> <<>>, start |-> <<>>, minimum_excluded |-> <<>>,
     maximum_excluded |-> <<>>, axis |-> 0, order |-> <<>>, major_axis |-> 0]

\* find_major_axis()
find_major_axis(nsubs, axis, minimum_excluded, maximum_excluded) ==
    LET first == IF axis > 0 THEN 0 ELSE IF nsubs > 1 THEN 1 ELSE 0
        later == {i \in (first + 1)..(nsubs - 1) : maximum_excluded[i + 1] # 0}
    IN IF minimum_excluded[first + 1] = -1 /\ maximum_excluded[first + 1] = 0
       THEN IF later # {} THEN CHOOSE i \in later : \A j \in later : i <= j
            ELSE 0
       ELSE first

\* The part the two constructors share: subs_, start_, minimum_excluded_
\* and maximum_excluded_ for start and bounds that are empty or nsubs long.
IteratorBounds(start, minimum_excluded, maximum_excluded) ==
    LET n == Max(Len(start), Max(Len(minimum_excluded), Len(maximum_excluded)))
        from == IF start = <<>> THEN [i \in 1..n |-> 0] ELSE start
    IN [nsubs |-> n, subs |-> from, start |-> from,
        minimum_excluded |->
            IF minimum_excluded # <<>> THEN minimum_excluded
            ELSE IF start # <<>> THEN [i \in 1..n |-> start[i] - 1]
            ELSE [i \in 1..n |-> -1],
        maximum_excluded |->
            IF maximum_excluded = <<>> THEN [i \in 1..n |-> 1] ELSE maximum_excluded]

\* Array_subscripts_iterator(start, minimum_excluded, maximum_excluded, axis)
IteratorOfAxis(start, minimum_excluded, maximum_excluded, axis) ==
    LET b == IteratorBounds(start, minimum_excluded, maximum_excluded)
        ax == modulo(axis, b.nsubs)
    IN IF b.nsubs <= 0 THEN NoIterator
       ELSE [nsubs |-> b.nsubs, subs |-> b.subs, start |-> b.start,
             minimum_excluded |-> b.minimum_excluded,
             maximum_excluded |-> b.maximum_excluded,
             axis |-> ax, order |-> <<>>,
             major_axis |-> find_major_axis(b.nsubs, ax, b.minimum_excluded,
                                            b.maximum_excluded)]

\* Array_subscripts_iterator(start, minimum_excluded, maximum_excluded, order)
IteratorOfOrder(start, minimum_excluded, maximum_excluded, order) ==
    LET b == IteratorBounds(start, minimum_excluded, maximum_excluded)
        ax == IF Len(order) >= b.nsubs THEN 0 ELSE b.nsubs - 1
    IN IF b.nsubs <= 0 THEN NoIterator
       ELSE [nsubs |-> b.nsubs, subs |-> b.subs, start |-> b.start,
             minimum_excluded |-> b.minimum_excluded,
             maximum_excluded |-> b.maximum_excluded,
             axis |-> ax,
             order |-> IF Len(order) >= b.nsubs
                       THEN [i \in 1..b.nsubs |-> modulo(order[i], b.nsubs)]
                       ELSE <<>>,
             major_axis |-> find_major_axis(b.nsubs, ax, b.minimum_excluded,
                                            b.maximum_excluded)]

\* ProcessedAxes as it would be if an order were processed front to back.
ProcessedAxes_front(it) ==
    IF it.order # <<>>
    THEN it.order
    ELSE <<it.axis>>
         \o [j \in 1..(it.nsubs - 1 - it.axis) |-> it.nsubs - j]
         \o [j \in 1..it.axis |-> it.axis - j]

\* The axes operator++ and operator-- process, in the order they process
\* them: the order back to front, or axis_, then the axes after it from the
\* last down, then the axes before it from axis_ - 1 down to 0.
ProcessedAxes(it) ==
    IF it.order # <<>>
    THEN [j \in 1..Len(it.order) |-> it.order[Len(it.order) + 1 - j]]
    ELSE <<it.axis>>
         \o [j \in 1..(it.nsubs - 1 - it.axis) |-> it.nsubs - j]
         \o [j \in 1..it.axis |-> it.axis - j]

\* The axis operator bool tests and increment/decrement leave at its bound.
OuterAxis(it) == IF it.order # <<>> THEN it.order[1] ELSE it.major_axis

\* increment_subscript(i, major_axis): the subscripts after it, and whether
\* the next axis is to be processed.
increment_subscript(it, i, major_axis) ==
    LET raised == it.subs[i + 1]
                    + (IF it.subs[i + 1] < it.maximum_excluded[i + 1] THEN 1 ELSE 0)
        more == raised = it.maximum_excluded[i + 1]
    IN [subs |-> [it.subs EXCEPT ![i + 1] =
                     IF more /\ i # major_axis
                     THEN it.minimum_excluded[i + 1] + 1
                     ELSE raised],
        more |-> more]

\* decrement_subscript as it would be if a wrapped subscript were put back
\* at the bound instead of one below it.
decrement_subscript_at_bound(it, i, major_axis) ==
    LET lowered == it.subs[i + 1]
                     - (IF it.subs[i + 1] > it.minimum_excluded[i + 1] THEN 1 ELSE 0)
        more == lowered = it.minimum_excluded[i + 1]
    IN [subs |-> [it.subs EXCEPT ![i + 1] =
                     IF more /\ i # major_axis
                     THEN it.maximum_excluded[i + 1]
                     ELSE lowered],
        more |-> more]

\* decrement_subscript(i, major_axis)
decrement_subscript(it, i, major_axis) ==
    LET lowered == it.subs[i + 1]
                     - (IF it.subs[i + 1] > it.minimum_excluded[i + 1] THEN 1 ELSE 0)
        more == lowered = it.minimum_excluded[i + 1]
    IN [subs |-> [it.subs EXCEPT ![i + 1] =
                     IF more /\ i # major_axis
                     THEN (IF it.maximum_excluded[i + 1] # 0
                           THEN it.maximum_excluded[i + 1] - 1 ELSE 0)
                     ELSE lowered],
        more |-> more]

RECURSIVE IncrementFrom(_, _, _)
IncrementFrom(it, axes, j) ==
    IF j > Len(axes) THEN it
    ELSE LET r == increment_subscript(it, axes[j], OuterAxis(it))
             next == [it EXCEPT !.subs = r.subs]
         IN IF r.more THEN IncrementFrom(next, axes, j + 1) ELSE next

RECURSIVE DecrementFrom(_, _, _)
DecrementFrom(it, axes, j) ==
    IF j > Len(axes) THEN it
    ELSE LET r == decrement_subscript(it, axes[j], OuterAxis(it))
             next == [it EXCEPT !.subs = r.subs]
         IN IF r.more THEN DecrementFrom(next, axes, j + 1) ELSE next

\* operator++()
Increment(it) == IncrementFrom(it, ProcessedAxes(it), 1)

\* operator--()
Decrement(it) == DecrementFrom(it, ProcessedAxes(it), 1)

\* operator+=(value): value times ++(*this)
RECURSIVE IncrementBy(_, _)
IncrementBy(it, value) ==
    IF value <= 0 THEN it ELSE IncrementBy(Increment(it), value - 1)

\* A operator-= that takes one step less than it is asked for.
RECURSIVE DecrementBy_short(_, _)
DecrementBy_short(it, value) ==
    IF value <= 1 THEN it ELSE DecrementBy_short(Decrement(it), value - 1)

\* operator-=(value): value times --(*this)
RECURSIVE DecrementBy(_, _)
DecrementBy(it, value) ==
    IF value <= 0 THEN it ELSE DecrementBy(Decrement(it), value - 1)

\* operator bool()
InRange(it) ==
    /\ it.subs[OuterAxis(it) + 1] < it.maximum_excluded[OuterAxis(it) + 1]
    /\ it.subs[OuterAxis(it) + 1] > it.minimum_excluded[OuterAxis(it) + 1]

(***************************************************************************)
(* Inputs.                                                                 *)
(***************************************************************************)
\* Shapes of the arrays that are constructed from a shape.
Shapes == {d \in SeqsOf(1..MaxDim, 1, MaxRank) : numel(d) <= MaxCount}

\* The intervals a slice is asked for on one axis: plain, strided, wrapping
\* (negative or too large bounds), backward, degenerate and zero-step ones.
AxisIntervals ==
    {Interval(0, 1, 1), Interval(1, 2, 1), Interval(0, 2, 2),
     Interval(-1, 3, -2), Interval(2, 1, 1), Interval(0, 0, 0)}

\* The subscripts an element access is asked for on one axis.
AxisSubs == (-1)..MaxDim

VARIABLES
    lay,      \* SpecLayout, SpecAccess: the layout (Array_header) under study
    depth,    \* SpecLayout, SpecAccess: number of slices that produced lay
    lop,      \* SpecLayout, SpecAccess: the last operation on lay, its
              \* arguments and its result
    carr,     \* SpecCursor: the header of the array the cursor walks
    ckind,    \* SpecCursor: how the cursor was built: "none" (not yet),
              \* "default", "order" or "axis"
    carg,     \* SpecCursor: the order, or <<axis>>, the cursor was built with
    cur,      \* SpecCursor: the Array_subscripts_iterator
    cmove,    \* SpecCursor: the last step taken: "advance" or "retreat"
    crank,    \* SpecCursor: unit advances minus unit retreats since the start
    cstep,    \* SpecStride: the step of the walk (0: none chosen)
    oarr,     \* SpecOps: the header of the operand array
    obuf,     \* SpecOps: the buffer the operand array shares
    oop,      \* SpecOps: the operation applied to the operand, its arguments
              \* and the array it returned
    hnd,      \* SpecHandles: the named Array handles: header, buffer and
              \* (history) the array built from a shape they derive from
    heap,     \* SpecHandles: the element buffers
    hsteps,   \* SpecHandles: number of slices and handle copies so far
    hop,      \* SpecHandles: the write or assignment made: its arguments, the
              \* destination Array before and after it, the buffers before it
    hrefs,    \* SpecLife: for every buffer, the number of Arrays that own it
              \* and whether it is allocated
    sa,       \* SpecShape, SpecJoin: the Array A (header and buffer)
    sb,       \* SpecJoin: the Array B
    sheap,    \* SpecShape, SpecJoin: the element buffers, in allocation order
    sslices,  \* SpecShape, SpecJoin: number of slices taken of A and B
    sop       \* SpecShape, SpecJoin: the call made: its arguments, what it
              \* returned or threw, the buffers before it, and the write made
              \* after it

layvars == <<lay, depth, lop>>

curvars == <<carr, ckind, carg, cur, cmove, crank, cstep>>

opsvars == <<oarr, obuf, oop>>

hndvars == <<hnd, heap, hsteps, hop, hrefs>>

shpvars == <<sa, sb, sheap, sslices, sop>>

vars == <<layvars, curvars, opsvars, hndvars, shpvars>>

NoLop == [op |-> "none", parent |-> EmptyHeader(FALSE), ivs |-> <<>>,
          subs |-> <<>>, ind |-> 0]

(***************************************************************************)
(* SpecLayout: a layout built from a shape and sliced (slices of slices);  *)
(* every slice is recorded with the layout it was taken from.              *)
(* SpecAccess: the same layouts, asked for the flat position of a          *)
(* subscript tuple.                                                        *)
(***************************************************************************)
\* The variables of the other specifications, at rest.
LayoutIdle == lay = EmptyHeader(FALSE) /\ depth = 0 /\ lop = NoLop

CursorIdle ==
    /\ carr = EmptyHeader(FALSE) /\ ckind = "none" /\ carg = <<>>
    /\ cur = NoIterator /\ cmove = "advance" /\ crank = 0 /\ cstep = 0

\* The array a call returns: its header, its buffer and the buffer positions
\* that were assigned since the buffer was allocated.
NoRes == [hdr |-> EmptyHeader(FALSE), data |-> <<>>, written |-> {}]

NoOop == [op |-> "none", axis |-> 0, order |-> <<>>, f |-> "sum", res |-> NoRes]

OpsIdle == oarr = EmptyHeader(FALSE) /\ obuf = <<>> /\ oop = NoOop

Handles == {"A", "B", "V", "W"}

\* Array{}: hdr_{} and buffsp_{ nullptr } (buffer 0 is the null pointer).
NullHandle == [hdr |-> EmptyHeader(FALSE), buf |-> 0, origin |-> 0]

NoHop == [op |-> "none", dst |-> "A", src |-> "A", ivs |-> <<>>, subs |-> <<>>,
          before |-> NullHandle, after |-> NullHandle, pre_heap |-> <<>>]

HandlesIdle ==
    /\ hnd = [h \in Handles |-> NullHandle] /\ heap = <<>>
    /\ hsteps = 0 /\ hop = NoHop /\ hrefs = <<>>

\* What a call leaves: the arguments it was made with, the Array it returned
\* (Array{} if it threw), the buffers before it; then the write made after it
\* (via "res", through the returned Array, or "arg", through A) and the
\* buffers before that write.
NoSop == [op |-> "none", dims |-> <<>>, axis |-> 0, ind |-> 0, count |-> 0,
          p |-> "all", res |-> NullHandle, aux |-> NullHandle, threw |-> FALSE,
          pre_heap |-> <<>>, via |-> "none", subs |-> <<>>, mid_heap |-> <<>>]

ShapeIdle ==
    /\ sa = NullHandle /\ sb = NullHandle /\ sheap = <<>>
    /\ sslices = 0 /\ sop = NoSop

LayoutInit ==
    /\ lay \in {HeaderOfDims(d) : d \in Shapes}
    /\ depth = 0
    /\ lop = NoLop
    /\ CursorIdle /\ OpsIdle /\ HandlesIdle /\ ShapeIdle

\* Header{ hdr_.dims(), hdr_.strides(), hdr_.offset(), ranges } of a
\* non-empty array, with 1..rank intervals.
SliceStep(recorded) ==
    /\ lay.usable
    /\ depth < MaxDepth
    /\ lop.op # "access"
    /\ \E ivs \in SeqsOf(AxisIntervals, 1, Len(lay.dims)) :
         /\ lay' = HeaderOfSlice(lay.dims, lay.strides, lay.offset, ivs)
         /\ lop' = IF recorded
                   THEN [NoLop EXCEPT !.op = "slice", !.parent = lay, !.ivs = ivs]
                   ELSE [NoLop EXCEPT !.op = "slice"]
    /\ depth' = depth + 1
    /\ UNCHANGED <<curvars, opsvars, hndvars, shpvars>>

LSlice == SliceStep(TRUE)

ASlice == SliceStep(FALSE)

\* subs2ind(hdr_.offset(), hdr_.strides(), hdr_.dims(), subs) of a non-empty
\* array, with fewer, as many or more subscripts than axes.
AAccess ==
    /\ lay.usable
    /\ lop.op # "access"
    /\ \E subs \in SeqsOf(AxisSubs, 1, Len(lay.dims) + 1) :
         lop' = [NoLop EXCEPT !.op = "access", !.subs = subs,
                              !.ind = subs2ind(lay.offset, lay.strides, lay.dims, subs)]
    /\ UNCHANGED <<lay, depth>>
    /\ UNCHANGED <<curvars, opsvars, hndvars, shpvars>>

LayoutNext == LSlice

\* The intervals a slice with more intervals than axes is given for its
\* axes: those of the test, strided, plain and backward with wrapping bounds.
SurplusAxisIntervals ==
    {Interval(0, 2, 2), Interval(0, 0, 1), Interval(-1, 3, -2)}

\* The intervals a slice is given after those of its axes.
SurplusIntervals == {Interval(100, 100, 5), Interval(0, 0, 1)}

\* A slice with 1..rank intervals of a layout that was not yet sliced with
\* more intervals than axes.
SurplusSetup == lop.op # "surplus" /\ SliceStep(FALSE)

\* Header{ hdr_.dims(), hdr_.strides(), hdr_.offset(), ranges } of a
\* non-empty array with rank + 1 intervals.  compute_strides then reads
\* previous_strides[rank] and writes strides[rank], one past the end of
\* both: either nothing comes of it and the header is the one computed, or
\* the call does not return a header (fault).
SurplusSlice ==
    /\ lay.usable
    /\ lop.op # "surplus"
    /\ \E ivs \in SeqsOf(SurplusAxisIntervals, Len(lay.dims), Len(lay.dims)) :
       \E extra \in SurplusIntervals :
       \E fault \in BOOLEAN :
          LET ranges == ivs \o <<extra>>
              beyond == \E i \in strides_touched(lay.dims, lay.strides, ranges) :
                           i >= Len(lay.strides)
          IN /\ fault => beyond
             /\ lay' = IF fault THEN lay
                       ELSE HeaderOfSlice(lay.dims, lay.strides, lay.offset, ranges)
             /\ lop' = [op |-> "surplus", parent |-> lay, ivs |-> ranges,
                        subs |-> <<>>, ind |-> 0, fault |-> fault,
                        dims_touched |-> dims_touched(lay.dims, ranges),
                        strides_touched |->
                            strides_touched(lay.dims, lay.strides, ranges)]
    /\ UNCHANGED depth
    /\ UNCHANGED <<curvars, opsvars, hndvars, shpvars>>

SurplusNext == SurplusSetup \/ SurplusSlice

SpecSurplus == LayoutInit /\ [][SurplusNext]_vars

SpecLayout == LayoutInit /\ [][LayoutNext]_vars

AccessNext == ASlice \/ AAccess

SpecAccess == LayoutInit /\ [][AccessNext]_vars

(***************************************************************************)
(* SpecCursor: a cursor over an array built from a shape, opened in one of *)
(* the three ways the library opens it, stepped forward while it is in     *)
(* range and backward again; out of range only the inverse of the step     *)
(* that left the range is taken.                                           *)
(***************************************************************************)
\* The orders that are permutations of the axes 0..n-1.
AxisOrders(n) ==
    {o \in [1..n -> 0..(n - 1)] : \A a \in 0..(n - 1) : \E j \in 1..n : o[j] = a}

CursorInit ==
    /\ carr \in {HeaderOfDims(d) : d \in Shapes}
    /\ ckind = "none" /\ carg = <<>>
    /\ cur = NoIterator /\ cmove = "advance" /\ crank = 0 /\ cstep = 0
    /\ LayoutIdle /\ OpsIdle /\ HandlesIdle /\ ShapeIdle

\* Subscripts_iterator iter({}, hdr.dims())
OpenDefault ==
    /\ ckind = "none"
    /\ cur' = IteratorOfOrder(<<>>, <<>>, carr.dims, <<>>)
    /\ ckind' = "default" /\ carg' = <<>>
    /\ UNCHANGED <<carr, cmove, crank, cstep>>
    /\ UNCHANGED <<layvars, opsvars, hndvars, shpvars>>

\* Subscripts_iterator iter({}, hdr.dims(), order)
OpenOrder ==
    /\ ckind = "none"
    /\ \E order \in AxisOrders(Len(carr.dims)) :
          /\ cur' = IteratorOfOrder(<<>>, <<>>, carr.dims, order)
          /\ carg' = order
    /\ ckind' = "order"
    /\ UNCHANGED <<carr, cmove, crank, cstep>>
    /\ UNCHANGED <<layvars, opsvars, hndvars, shpvars>>

\* Subscripts_iterator iter({}, hdr.dims(), axis)
OpenAxis ==
    /\ ckind = "none"
    /\ \E axis \in 0..(Len(carr.dims) - 1) :
          /\ cur' = IteratorOfAxis(<<>>, <<>>, carr.dims, axis)
          /\ carg' = <<axis>>
    /\ ckind' = "axis"
    /\ UNCHANGED <<carr, cmove, crank, cstep>>
    /\ UNCHANGED <<layvars, opsvars, hndvars, shpvars>>

\* ++iter
Advance ==
    /\ ckind # "none"
    /\ InRange(cur) \/ cmove = "retreat"
    /\ cur' = Increment(cur)
    /\ cmove' = "advance"
    /\ crank' = crank + 1
    /\ UNCHANGED <<carr, ckind, carg, cstep>>
    /\ UNCHANGED <<layvars, opsvars, hndvars, shpvars>>

\* --iter
Retreat ==
    /\ ckind # "none"
    /\ InRange(cur) \/ cmove = "advance"
    /\ cur' = Decrement(cur)
    /\ cmove' = "retreat"
    /\ crank' = crank - 1
    /\ UNCHANGED <<carr, ckind, carg, cstep>>
    /\ UNCHANGED <<layvars, opsvars, hndvars, shpvars>>

CursorNext == OpenDefault \/ OpenOrder \/ OpenAxis \/ Advance \/ Retreat

SpecCursor == CursorInit /\ [][CursorNext]_vars

(***************************************************************************)
(* SpecStride: a cursor over an array built from a shape, default or with  *)
(* an order, moved forward by a step (iter += step) while it is in range   *)
(* and then backward by the same step (iter -= step) until it is out of    *)
(* range again.                                                            *)
(***************************************************************************)
\* Subscripts_iterator iter({}, dims) or iter({}, dims, order), and the step
\* the walk is made with.
StrideOpen ==
    /\ ckind = "none"
    /\ \/ /\ cur' = IteratorOfOrder(<<>>, <<>>, carr.dims, <<>>)
          /\ ckind' = "default" /\ carg' = <<>>
       \/ \E order \in AxisOrders(Len(carr.dims)) :
             /\ cur' = IteratorOfOrder(<<>>, <<>>, carr.dims, order)
             /\ ckind' = "order" /\ carg' = order
    /\ cstep' \in 1..MaxStep
    /\ UNCHANGED <<carr, cmove, crank>>
    /\ UNCHANGED <<layvars, opsvars, hndvars, shpvars>>

\* while (iter) { ...; iter += step; }
StrideAdvance ==
    /\ ckind # "none" /\ cmove = "advance"
    /\ InRange(cur)
    /\ cur' = IncrementBy(cur, cstep)
    /\ crank' = crank + cstep
    /\ UNCHANGED <<carr, ckind, carg, cmove, cstep>>
    /\ UNCHANGED <<layvars, opsvars, hndvars, shpvars>>

\* while ((iter = iter - step)) { ... }
StrideRetreat ==
    /\ ckind # "none"
    /\ \/ cmove = "advance" /\ ~InRange(cur)
       \/ cmove = "retreat" /\ InRange(cur)
    /\ cur' = DecrementBy(cur, cstep)
    /\ cmove' = "retreat"
    /\ crank' = crank - cstep
    /\ UNCHANGED <<carr, ckind, carg, cstep>>
    /\ UNCHANGED <<layvars, opsvars, hndvars, shpvars>>

StrideNext == StrideOpen \/ StrideAdvance \/ StrideRetreat

SpecStride == CursorInit /\ [][StrideNext]_vars

(***************************************************************************)
(* SpecOps: an array built from a shape and the data 1, 2, ..., count, or  *)
(* a slice of it, handed to reduce (along an axis) or to transpose.        *)
(***************************************************************************)
\* The data 1, 2, ..., n.
Iota(n) == [p \in 1..n |-> p]

\* empty(arr)
empty(hdr, has_data) == (~has_data \/ hdr.is_subarray) /\ ~hdr.usable

\* arr(subs): the element of the buffer at subs2ind(...)
ElementAt(hdr, buf, subs) ==
    buf[subs2ind(hdr.offset, hdr.strides, hdr.dims, subs) + 1]

\* res(subs) = v
StoreAt(res, subs, v) ==
    LET ind == subs2ind(res.hdr.offset, res.hdr.strides, res.hdr.dims, subs)
    IN [hdr |-> res.hdr,
        data |-> [p \in 1..Len(res.data) |-> IF p = ind + 1 THEN v ELSE res.data[p]],
        written |-> res.written \cup {ind}]

\* An array with a newly allocated buffer of count elements, none assigned
\* yet, and the given header.
NewResult(hdr, count) ==
    [hdr |-> hdr, data |-> [p \in 1..count |-> 0], written |-> {}]

\* The functions handed to reduce, called as func(value, previous): the sum
\* and the decimal number written with the values as digits.
ReduceFuncs == {"sum", "digits"}

Apply(f, value, previous) ==
    IF f = "sum" THEN previous + value ELSE 10 * previous + value

\* A variant that always takes the extent of the last axis.
reduction_iteration_cycle_last(dims, axis) == dims[Len(dims)]

\* reduction_iteration_cycle in reduce
reduction_iteration_cycle(dims, axis) == dims[modulo(axis, Len(dims)) + 1]

\* One pass of the body of the while loop of reduce: res_element starts as
\* the element at the cursor, the for loop folds the next cycle - 1 elements
\* into it, and it is stored at the result's cursor.  i counts the cursor
\* steps taken in the pass; the pass is complete at i = cycle.
RECURSIVE ReducePass(_, _, _, _, _)
ReducePass(hdr, buf, f, cycle, s) ==
    IF s.i = 0
    THEN ReducePass(hdr, buf, f, cycle,
                    [s EXCEPT !.res_element = ElementAt(hdr, buf, s.arr_ndstor.subs),
                              !.arr_ndstor = Increment(s.arr_ndstor),
                              !.i = 1])
    ELSE IF s.i - 1 < cycle - 1
    THEN ReducePass(hdr, buf, f, cycle,
                    [s EXCEPT !.res_element =
                                  Apply(f, ElementAt(hdr, buf, s.arr_ndstor.subs),
                                        s.res_element),
                              !.arr_ndstor = Increment(s.arr_ndstor),
                              !.i = s.i + 1])
    ELSE [s EXCEPT !.res = StoreAt(s.res, s.res_ndstor.subs, s.res_element),
                   !.res_ndstor = Increment(s.res_ndstor),
                   !.i = 0]

\* The while loop of reduce.
RECURSIVE ReduceLoop(_, _, _, _, _)
ReduceLoop(hdr, buf, f, cycle, s) ==
    IF InRange(s.arr_ndstor) /\ InRange(s.res_ndstor)
    THEN ReduceLoop(hdr, buf, f, cycle, ReducePass(hdr, buf, f, cycle, s))
    ELSE s.res

\* reduce(arr, func, axis)
reduce(hdr, buf, f, axis) ==
    IF empty(hdr, TRUE) THEN NoRes
    ELSE LET new_header == HeaderOmitAxis(hdr.dims, axis)
         IN IF ~new_header.usable THEN NoRes
            ELSE ReduceLoop(hdr, buf, f,
                            reduction_iteration_cycle(hdr.dims, axis),
                            [arr_ndstor |-> IteratorOfAxis(<<>>, <<>>, hdr.dims, axis),
                             res_ndstor |-> IteratorOfOrder(<<>>, <<>>, new_header.dims, <<>>),
                             res |-> NewResult(new_header, new_header.count),
                             res_element |-> 0, i |-> 0])

\* The while loop of transpose.
RECURSIVE TransposeLoop(_, _, _, _, _)
TransposeLoop(hdr, buf, arr_ndstor, res_ndstor, res) ==
    IF InRange(arr_ndstor) /\ InRange(res_ndstor)
    THEN TransposeLoop(hdr, buf, Increment(arr_ndstor), Increment(res_ndstor),
                       StoreAt(res, res_ndstor.subs,
                               ElementAt(hdr, buf, arr_ndstor.subs)))
    ELSE res

\* transpose(arr, order)
transpose(hdr, buf, order) ==
    IF empty(hdr, TRUE) THEN NoRes
    ELSE LET new_header == HeaderOfOrder(hdr.dims, order)
         IN IF ~new_header.usable THEN NoRes
            ELSE TransposeLoop(hdr, buf,
                               IteratorOfOrder(<<>>, <<>>, hdr.dims, order),
                               IteratorOfOrder(<<>>, <<>>, new_header.dims, <<>>),
                               NewResult(new_header, hdr.count))

OpsInit ==
    /\ oarr \in {HeaderOfDims(d) : d \in Shapes}
    /\ obuf = Iota(oarr.count)
    /\ oop = NoOop
    /\ LayoutIdle /\ CursorIdle /\ HandlesIdle /\ ShapeIdle

\* arr(ranges) of the array built from the shape, with 1..rank intervals.
OSlice ==
    /\ ~oarr.is_subarray
    /\ oop.op = "none"
    /\ \E ivs \in SeqsOf(AxisIntervals, 1, Len(oarr.dims)) :
         oarr' = HeaderOfSlice(oarr.dims, oarr.strides, oarr.offset, ivs)
    /\ UNCHANGED <<obuf, oop>>
    /\ UNCHANGED <<layvars, curvars, hndvars, shpvars>>

\* reduce(arr, func, axis)
OReduce ==
    /\ oop.op = "none"
    /\ \E f \in ReduceFuncs, axis \in 0..MaxRank :
         oop' = [NoOop EXCEPT !.op = "reduce", !.axis = axis, !.f = f,
                              !.res = reduce(oarr, obuf, f, axis)]
    /\ UNCHANGED <<oarr, obuf>>
    /\ UNCHANGED <<layvars, curvars, hndvars, shpvars>>

\* transpose(arr, order), the order a permutation of the axes
OTranspose ==
    /\ oop.op = "none"
    /\ \E order \in AxisOrders(Len(oarr.dims)) :
         oop' = [NoOop EXCEPT !.op = "transpose", !.order = order,
                              !.res = transpose(oarr, obuf, order)]
    /\ UNCHANGED <<oarr, obuf>>
    /\ UNCHANGED <<layvars, curvars, hndvars, shpvars>>

OpsNext == OSlice \/ OReduce \/ OTranspose

SpecOps == OpsInit /\ [][OpsNext]_vars

(***************************************************************************)
(* SpecHandles: named Array handles over shared buffers.  A and B are      *)
(* arrays built from one shape, A with the data 1, 2, ... and B with the   *)
(* data 11, 12, ...; V and W start as Array{} and are assigned slices and  *)
(* copies of the handles.  Then one element is written through a handle,   *)
(* or a handle is assigned to a named handle or to a slice expression.     *)
(***************************************************************************)
\* The intervals a slice is asked for on one axis.
ViewIntervals ==
    {Interval(1, 2, 1), Interval(0, 0, 1), Interval(1, 1, 2)}

\* The handles that are assigned to by name.
Slots == {"V", "W"}

\* The shapes A and B are built from: the largest ones.
HandleShapes == {d \in Shapes : numel(d) >= MaxCount - 1}

\* A and B are interchangeable, and so are V and W: the first assignment is
\* to V, from A.
InTurn(dst, src) == hsteps = 0 => dst = "V" /\ src = "A"

\* A variant in which a slice gets the other buffer.
SliceBuffer_other(buffsp) == 3 - buffsp

\* slice.buffsp_ = buffsp_
SliceBuffer(buffsp) == buffsp

\* arr(ranges): the array itself if there are no ranges or it is empty, else
\* a slice that shares its buffer.
SliceOf(arr, ranges) ==
    IF Len(ranges) = 0 \/ empty(arr.hdr, arr.buf # 0) THEN arr
    ELSE [hdr |-> HeaderOfSlice(arr.hdr.dims, arr.hdr.strides, arr.hdr.offset, ranges),
          buf |-> SliceBuffer(arr.buf), origin |-> arr.origin]

\* dst(subs) = v
WriteElement(h, dst, subs, v) ==
    LET ind == subs2ind(dst.hdr.offset, dst.hdr.strides, dst.hdr.dims, subs)
    IN [h EXCEPT ![dst.buf] =
           [p \in 1..Len(h[dst.buf]) |-> IF p = ind + 1 THEN v ELSE h[dst.buf][p]]]

\* The for loop of copy.
RECURSIVE CopyLoop(_, _, _, _)
CopyLoop(h, src, dst, src_iter) ==
    IF InRange(src_iter)
    THEN CopyLoop(WriteElement(h, dst, src_iter.subs,
                               ElementAt(src.hdr, h[src.buf], src_iter.subs)),
                  src, dst, Increment(src_iter))
    ELSE h

\* copy(src, dst): the buffers after it.
copy(h, src, dst) ==
    IF empty(src.hdr, src.buf # 0) \/ empty(dst.hdr, dst.buf # 0) THEN h
    ELSE IF is_contained_in(src.hdr.dims, dst.hdr.dims)
    THEN CopyLoop(h, src, dst, IteratorOfOrder(<<>>, <<>>, src.hdr.dims, <<>>))
    ELSE h

\* A variant of the test that never holds.
AssignCopies_never(hdr, other_dims) == FALSE

\* hdr_.is_subarray() && hdr_.dims() == other.hdr_.dims()
AssignCopies(hdr, other_dims) == hdr.is_subarray /\ hdr.dims = other_dims

HandlesInit ==
    /\ \E d \in HandleShapes :
         /\ hnd = [h \in Handles |->
                     IF h \in Slots THEN NullHandle
                     ELSE [hdr |-> HeaderOfDims(d),
                           buf |-> IF h = "A" THEN 1 ELSE 2,
                           origin |-> IF h = "A" THEN 1 ELSE 2]]
         /\ heap = <<Iota(numel(d)), [p \in 1..numel(d) |-> 10 + p]>>
    /\ hsteps = 0
    /\ hop = NoHop
    /\ hrefs = <<>>
    /\ LayoutIdle /\ CursorIdle /\ OpsIdle /\ ShapeIdle

\* dst = src(ranges), dst a named handle
HSlice ==
    /\ hop.op = "none"
    /\ hsteps < MaxSetup
    /\ \E dst \in Slots, src \in Handles :
         /\ InTurn(dst, src)
         /\ \E ranges \in SeqsOf(ViewIntervals, 1, Max(1, Len(hnd[src].hdr.dims))) :
               hnd' = [hnd EXCEPT ![dst] = SliceOf(hnd[src], ranges)]
    /\ hsteps' = hsteps + 1
    /\ UNCHANGED <<heap, hop, hrefs>>
    /\ UNCHANGED <<layvars, curvars, opsvars, shpvars>>

\* dst = src, dst a named handle: operator=(const Array&) & = default.  With
\* recorded, the assignment is kept in hop and is the last step.
CopyAssign(recorded) ==
    /\ hop.op = "none"
    /\ \E dst \in Slots, src \in Handles :
         /\ src # dst /\ InTurn(dst, src)
         /\ hnd' = [hnd EXCEPT ![dst] = hnd[src]]
         /\ IF recorded
            THEN /\ hop' = [NoHop EXCEPT !.op = "assign", !.dst = dst, !.src = src,
                                         !.before = hnd[dst], !.after = hnd[src],
                                         !.pre_heap = heap]
                 /\ hsteps' = hsteps
            ELSE /\ hsteps < MaxSetup
                 /\ hsteps' = hsteps + 1
                 /\ hop' = hop
    /\ UNCHANGED <<heap, hrefs>>
    /\ UNCHANGED <<layvars, curvars, opsvars, shpvars>>

HCopy == CopyAssign(FALSE)

HAssign == CopyAssign(TRUE)

\* dst(ranges) = src: operator=(const Array&) && on the slice expression,
\* the slice taken with one interval
HAssignView ==
    /\ hop.op = "none"
    /\ \E dst \in Handles, src \in Handles :
         \E ranges \in SeqsOf(ViewIntervals, 1, 1) :
            LET temp == SliceOf(hnd[dst], ranges)
                copies == AssignCopies(temp.hdr, hnd[src].hdr.dims)
            IN /\ heap' = IF copies THEN copy(heap, hnd[src], temp) ELSE heap
               /\ hop' = [NoHop EXCEPT !.op = "assignview", !.dst = dst, !.src = src,
                                       !.ivs = ranges, !.before = temp,
                                       !.after = IF copies THEN temp ELSE hnd[src],
                                       !.pre_heap = heap]
    /\ UNCHANGED <<hnd, hsteps, hrefs>>
    /\ UNCHANGED <<layvars, curvars, opsvars, shpvars>>

\* h(subs) = 100, subs a subscript tuple of h
HWrite ==
    /\ hop.op = "none"
    /\ \E h \in Handles :
         /\ hnd[h].hdr.usable
         /\ \E subs \in [1..Len(hnd[h].hdr.dims) -> 0..(MaxDim - 1)] :
              /\ \A i \in 1..Len(subs) : subs[i] < hnd[h].hdr.dims[i]
              /\ heap' = WriteElement(heap, hnd[h], subs, 100)
              /\ hop' = [NoHop EXCEPT !.op = "write", !.dst = h, !.subs = subs,
                                      !.pre_heap = heap]
    /\ UNCHANGED <<hnd, hsteps, hrefs>>
    /\ UNCHANGED <<layvars, curvars, opsvars, shpvars>>

HandlesNext == HSlice \/ HCopy \/ HAssign \/ HAssignView \/ HWrite

SpecHandles == HandlesInit /\ [][HandlesNext]_vars

(***************************************************************************)
(* SpecRebind: the handles of SpecHandles, V and W assigned slices, and    *)
(* then one assignment by copy or by move, to a named handle or to a slice *)
(* expression.                                                             *)
(***************************************************************************)
\* A variant in which the assignment to a named handle does what the
\* assignment to a slice expression does.
AssignNamed_through(h, src, dst) ==
    IF AssignCopies(dst.hdr, src.hdr.dims)
    THEN [heap |-> copy(h, src, dst), arr |-> dst]
    ELSE [heap |-> h, arr |-> src]

\* operator=(const Array&) & = default and operator=(Array&&) & = default:
\* the header and the buffer reference of the source, whatever dst holds.
AssignNamed(h, src, dst) == [heap |-> h, arr |-> src]

\* dst = src, dst a named handle
RAssign ==
    /\ hop.op = "none"
    /\ \E dst \in Slots, src \in Handles :
         /\ src # dst
         /\ LET r == AssignNamed(heap, hnd[src], hnd[dst])
            IN /\ hnd' = [hnd EXCEPT ![dst] = r.arr]
               /\ heap' = r.heap
               /\ hop' = [NoHop EXCEPT !.op = "assign", !.dst = dst, !.src = src,
                                       !.before = hnd[dst], !.after = hnd[src],
                                       !.pre_heap = heap]
    /\ UNCHANGED <<hsteps, hrefs>>
    /\ UNCHANGED <<layvars, curvars, opsvars, shpvars>>

\* dst = std::move(src), dst a named handle: src is left as Array{}
RMoveAssign ==
    /\ hop.op = "none"
    /\ \E dst \in Slots, src \in Handles :
         /\ src # dst
         /\ LET r == AssignNamed(heap, hnd[src], hnd[dst])
            IN /\ hnd' = [hnd EXCEPT ![dst] = r.arr, ![src] = NullHandle]
               /\ heap' = r.heap
               /\ hop' = [NoHop EXCEPT !.op = "moveassign", !.dst = dst, !.src = src,
                                       !.before = hnd[dst], !.after = hnd[src],
                                       !.pre_heap = heap]
    /\ UNCHANGED <<hsteps, hrefs>>
    /\ UNCHANGED <<layvars, curvars, opsvars, shpvars>>

\* The handles that are sliced and assigned to, and those assigned from.
Sliced == {"A", "V"}

Sources == {"B", "W"}

\* dst(ranges) = src and dst(ranges) = std::move(src): operator=(const
\* Array&) && and operator=(Array&&) && on the slice expression, the slice
\* taken with one interval.  Elements are copied if the slice is a view of
\* the source's dims; else the temporary is rebound, which by move leaves
\* src as Array{}.
AssignView(moved) ==
    /\ hop.op = "none"
    /\ \E dst \in Sliced, src \in Sources :
         \E ranges \in SeqsOf(ViewIntervals, 1, 1) :
            LET temp == SliceOf(hnd[dst], ranges)
                copies == AssignCopies(temp.hdr, hnd[src].hdr.dims)
            IN /\ heap' = IF copies THEN copy(heap, hnd[src], temp) ELSE heap
               /\ hnd' = IF moved /\ ~copies
                         THEN [hnd EXCEPT ![src] = NullHandle] ELSE hnd
               /\ hop' = [NoHop EXCEPT !.op = IF moved THEN "moveassignview"
                                                        ELSE "assignview",
                                       !.dst = dst, !.src = src, !.ivs = ranges,
                                       !.before = temp,
                                       !.after = IF copies THEN temp ELSE hnd[src],
                                       !.pre_heap = heap]
    /\ UNCHANGED <<hsteps, hrefs>>
    /\ UNCHANGED <<layvars, curvars, opsvars, shpvars>>

RAssignView == AssignView(FALSE)

RMoveAssignView == AssignView(TRUE)

RebindNext == HSlice \/ RAssign \/ RMoveAssign \/ RAssignView \/ RMoveAssignView

SpecRebind == HandlesInit /\ [][RebindNext]_vars

(***************************************************************************)
(* SpecLife: the handles A, B, V and W constructed, sliced, copied, moved, *)
(* assigned and destroyed, with the owners of every buffer counted.  An    *)
(* Array holds its buffer through buffsp_, a memoc::Shared_ptr: a copy of  *)
(* it is one more owner, its destruction or reassignment one owner less,   *)
(* a move hands the ownership over, and the buffer is released with its    *)
(* last owner.                                                             *)
(***************************************************************************)
\* Shared_ptr(const Shared_ptr&): one more owner of buffer b (0: nullptr).
Acquire(r, b) ==
    IF b = 0 THEN r ELSE [r EXCEPT ![b].owners = @ + 1]

\* ~Shared_ptr(): one owner less; the buffer is released with the last.
Release(r, b) ==
    IF b = 0 THEN r
    ELSE [r EXCEPT ![b] = [owners |-> @.owners - 1,
                           allocated |-> @.allocated /\ @.owners > 1]]

\* A variant in which the slice holds the buffer without owning it.
SliceShares_not(r, b) == r

\* slice.buffsp_ = buffsp_: the slice is one more owner of the buffer.
SliceShares(r, b) == Acquire(r, b)

\* The shapes the arrays are built from: those of the test.
LifeShapes == {<<3, 1, 2>>, <<6>>}

LifeInit ==
    /\ \E d \in LifeShapes :
         /\ hnd = [h \in Handles |->
                     IF h \in Slots THEN NullHandle
                     ELSE [hdr |-> HeaderOfDims(d),
                           buf |-> IF h = "A" THEN 1 ELSE 2,
                           origin |-> IF h = "A" THEN 1 ELSE 2]]
         /\ heap = <<Iota(numel(d)), [p \in 1..numel(d) |-> 10 + p]>>
    /\ hrefs = <<[owners |-> 1, allocated |-> TRUE],
                 [owners |-> 1, allocated |-> TRUE]>>
    /\ hsteps = 0
    /\ hop = NoHop
    /\ LayoutIdle /\ CursorIdle /\ OpsIdle /\ ShapeIdle

\* dst = Array(dims, data), the data 21, 22, ...: a new buffer with one
\* owner; dst gives up the buffer it held.
LifeConstruct ==
    /\ hsteps < MaxLife
    /\ Len(heap) < MaxBuffers
    /\ \E dst \in Handles :
       \E d \in LifeShapes :
          LET b == Len(heap) + 1
          IN /\ heap' = Append(heap, [p \in 1..numel(d) |-> 20 + p])
             /\ hnd' = [hnd EXCEPT ![dst] = [hdr |-> HeaderOfDims(d), buf |-> b,
                                             origin |-> b]]
             /\ hrefs' = Release(Append(hrefs, [owners |-> 1, allocated |-> TRUE]),
                                 hnd[dst].buf)
    /\ hsteps' = hsteps + 1
    /\ UNCHANGED hop
    /\ UNCHANGED <<layvars, curvars, opsvars, shpvars>>

\* dst = src(ranges), with one interval: the slice shares the buffer of src
\* and is moved into dst, which gives up the buffer it held.
LifeSlice ==
    /\ hsteps < MaxLife
    /\ \E dst \in Handles, src \in Handles :
       \E ranges \in SeqsOf(ViewIntervals, 1, 1) :
          /\ hnd' = [hnd EXCEPT ![dst] = SliceOf(hnd[src], ranges)]
          /\ hrefs' = Release(SliceShares(hrefs, hnd[src].buf), hnd[dst].buf)
    /\ hsteps' = hsteps + 1
    /\ UNCHANGED <<heap, hop>>
    /\ UNCHANGED <<layvars, curvars, opsvars, shpvars>>

\* dst = src: dst shares the buffer of src and gives up the buffer it held.
LifeCopy ==
    /\ hsteps < MaxLife
    /\ \E dst \in Handles, src \in Handles :
          /\ src # dst
          /\ hnd' = [hnd EXCEPT ![dst] = hnd[src]]
          /\ hrefs' = Release(Acquire(hrefs, hnd[src].buf), hnd[dst].buf)
    /\ hsteps' = hsteps + 1
    /\ UNCHANGED <<heap, hop>>
    /\ UNCHANGED <<layvars, curvars, opsvars, shpvars>>

\* dst = std::move(src): dst takes over the buffer of src, which is left as
\* Array{}, and gives up the buffer it held.
LifeMove ==
    /\ hsteps < MaxLife
    /\ \E dst \in Handles, src \in Handles :
          /\ src # dst
          /\ hnd' = [hnd EXCEPT ![dst] = hnd[src], ![src] = NullHandle]
          /\ hrefs' = Release(hrefs, hnd[dst].buf)
    /\ hsteps' = hsteps + 1
    /\ UNCHANGED <<heap, hop>>
    /\ UNCHANGED <<layvars, curvars, opsvars, shpvars>>

\* ~Array(): the handle gives up its buffer; it is not used again (it reads
\* as Array{} here).
LifeDestroy ==
    /\ hsteps < MaxLife
    /\ \E h \in Handles :
          /\ hnd[h] # NullHandle
          /\ hnd' = [hnd EXCEPT ![h] = NullHandle]
          /\ hrefs' = Release(hrefs, hnd[h].buf)
    /\ hsteps' = hsteps + 1
    /\ UNCHANGED <<heap, hop>>
    /\ UNCHANGED <<layvars, curvars, opsvars, shpvars>>

LifeNext == LifeConstruct \/ LifeSlice \/ LifeCopy \/ LifeMove \/ LifeDestroy

SpecLife == LifeInit /\ [][LifeNext]_vars

(***************************************************************************)
(* SpecShape: an array A built from a shape, or a slice of it, handed to   *)
(* clone, reshape, resize, filter or find; after clone and reshape one     *)
(* element is written through the returned array or through A.             *)
(* SpecJoin: two arrays A and B, one of them possibly a slice, handed to   *)
(* append, insert (and remove of what insert returned), copy, transform    *)
(* and operator+=.                                                         *)
(***************************************************************************)
\* The value of a buffer element that was allocated and not assigned.
Unassigned == -1

\* Subscripts_iterator({}, dims)
DefaultIterator(dims) == IteratorOfOrder(<<>>, <<>>, dims, <<>>)

\* What a call gives back: the buffers after it and the Array it returned,
\* or that it threw.
Returned(h, arr) == [heap |-> h, arr |-> arr, threw |-> FALSE]

\* COMPUTOC_THROW_IF_FALSE(condition, ...) with a false condition: the call
\* ends there with an exception.
Thrown(h) == [heap |-> h, arr |-> NullHandle, threw |-> TRUE]

\* Array(dims): hdr_(dims) and a newly allocated buffer of hdr_.count()
\* elements.
NewArray(h, dims) ==
    LET hdr == HeaderOfDims(dims)
    IN [heap |-> Append(h, [p \in 1..hdr.count |-> Unassigned]),
        arr |-> [hdr |-> hdr, buf |-> Len(h) + 1, origin |-> Len(h) + 1]]

\* The for loop of clone.
RECURSIVE CloneLoop(_, _, _, _)
CloneLoop(h, arr, cl, iter) ==
    IF InRange(iter)
    THEN CloneLoop(WriteElement(h, cl, iter.subs,
                                ElementAt(arr.hdr, h[arr.buf], iter.subs)),
                   arr, cl, Increment(iter))
    ELSE h

\* A variant of clone that returns the array itself.
clone_alias(h, arr) == Returned(h, arr)

\* clone(arr)
clone(h, arr) ==
    IF empty(arr.hdr, arr.buf # 0) THEN Returned(h, NullHandle)
    ELSE LET n == NewArray(h, arr.hdr.dims)
         IN Returned(CloneLoop(n.heap, arr, n.arr, DefaultIterator(arr.hdr.dims)),
                     n.arr)

\* The while loop of reshape (of a subarray).
RECURSIVE ReshapeLoop(_, _, _, _, _)
ReshapeLoop(h, arr, res, prev_ndstor, new_ndstor) ==
    IF InRange(prev_ndstor) /\ InRange(new_ndstor)
    THEN ReshapeLoop(WriteElement(h, res, new_ndstor.subs,
                                  ElementAt(arr.hdr, h[arr.buf], prev_ndstor.subs)),
                     arr, res, Increment(prev_ndstor), Increment(new_ndstor))
    ELSE h

\* A variant that allocates for an array that is not a subarray, too.
ReshapeAllocates_always(hdr) == TRUE

\* arr.header().is_subarray() in reshape
ReshapeAllocates(hdr) == hdr.is_subarray

\* reshape(arr, new_dims)
reshape(h, arr, new_dims) ==
    IF empty(arr.hdr, arr.buf # 0) THEN Returned(h, NullHandle)
    ELSE IF arr.hdr.count # numel(new_dims) THEN Thrown(h)
    ELSE IF arr.hdr.dims = new_dims THEN Returned(h, arr)
    ELSE IF ReshapeAllocates(arr.hdr)
    THEN LET n == NewArray(h, new_dims)
         IN Returned(ReshapeLoop(n.heap, arr, n.arr,
                                 DefaultIterator(arr.hdr.dims),
                                 DefaultIterator(new_dims)),
                     n.arr)
    ELSE LET new_header == HeaderOfDims(new_dims)
         IN IF ~new_header.usable THEN Returned(h, NullHandle)
            ELSE Returned(h, [hdr |-> new_header, buf |-> arr.buf,
                              origin |-> arr.origin])

\* The while loop of resize.
RECURSIVE ResizeLoop(_, _, _, _, _)
ResizeLoop(h, arr, res, prev_ndstor, new_ndstor) ==
    IF InRange(prev_ndstor) /\ InRange(new_ndstor)
    THEN ResizeLoop(WriteElement(h, res, new_ndstor.subs,
                                 ElementAt(arr.hdr, h[arr.buf], prev_ndstor.subs)),
                    arr, res, Increment(prev_ndstor), Increment(new_ndstor))
    ELSE h

\* A variant of what resize returns for equal dims: the array itself.
ResizeSame_alias(h, arr) == Returned(h, arr)

\* return clone(arr) in resize
ResizeSame(h, arr) == clone(h, arr)

\* resize(arr, new_dims)
resize(h, arr, new_dims) ==
    IF Len(new_dims) = 0 THEN Returned(h, NullHandle)
    ELSE IF empty(arr.hdr, arr.buf # 0)
    THEN LET n == NewArray(h, new_dims) IN Returned(n.heap, n.arr)
    ELSE IF arr.hdr.dims = new_dims THEN ResizeSame(h, arr)
    ELSE LET n == NewArray(h, new_dims)
         IN Returned(ResizeLoop(n.heap, arr, n.arr,
                                DefaultIterator(arr.hdr.dims),
                                DefaultIterator(new_dims)),
                     n.arr)

\* The for loop of append (without an axis).
RECURSIVE AppendFlatLoop(_, _, _, _, _)
AppendFlatLoop(h, lhs, rhs, res, i) ==
    IF i < res.hdr.count
    THEN AppendFlatLoop(WriteElement(h, res, <<i>>,
                            ElementAt(rhs.hdr, h[rhs.buf], <<i - lhs.hdr.count>>)),
                        lhs, rhs, res, i + 1)
    ELSE h

\* append(lhs, rhs), without an axis
append_flat(h, lhs, rhs) ==
    IF empty(lhs.hdr, lhs.buf # 0) THEN clone(h, rhs)
    ELSE IF empty(rhs.hdr, rhs.buf # 0) THEN clone(h, lhs)
    ELSE LET res == resize(h, lhs, <<lhs.hdr.count + rhs.hdr.count>>)
             rrhs == reshape(res.heap, rhs, <<rhs.hdr.count>>)
         IN Returned(AppendFlatLoop(rrhs.heap, lhs, rhs, res.arr, lhs.hdr.count),
                     res.arr)

\* The first for loop of remove (without an axis).
RECURSIVE RemoveFlatHead(_, _, _, _, _)
RemoveFlatHead(h, rarr, res, ind, i) ==
    IF i < ind
    THEN RemoveFlatHead(WriteElement(h, res, <<i>>,
                            ElementAt(rarr.hdr, h[rarr.buf], <<i>>)),
                        rarr, res, ind, i + 1)
    ELSE h

\* The second for loop of remove (without an axis).
RECURSIVE RemoveFlatTail(_, _, _, _, _, _, _)
RemoveFlatTail(h, arr, rarr, res, ind, count, i) ==
    IF i < arr.hdr.count
    THEN RemoveFlatTail(WriteElement(h, res, <<ind + i - count + 1>>,
                            ElementAt(rarr.hdr, h[rarr.buf], <<i>>)),
                        arr, rarr, res, ind, count, i + 1)
    ELSE h

\* remove(arr, ind, count), without an axis
remove_flat(h, arr, ind, count) ==
    IF empty(arr.hdr, arr.buf # 0) THEN Returned(h, NullHandle)
    ELSE IF ~(ind + count < arr.hdr.count) THEN Thrown(h)
    ELSE LET n == NewArray(h, <<arr.hdr.count - count>>)
             rarr == reshape(n.heap, arr, <<arr.hdr.count>>)
             h1 == RemoveFlatHead(rarr.heap, rarr.arr, n.arr, ind, 0)
         IN Returned(RemoveFlatTail(h1, arr, rarr.arr, n.arr, ind, count,
                                    ind + count),
                     n.arr)

\* The predicates handed to filter and find.
Preds == {"all", "nonzero", "even", "none"}

Holds(p, v) ==
    CASE p = "all" -> TRUE
      [] p = "nonzero" -> v # 0
      [] p = "even" -> v % 2 = 0
      [] OTHER -> FALSE

\* A variant that keeps every element.
FilterKeeps_all(p, v) == TRUE

\* func(arr(*arr_ndstor)) in filter
FilterKeeps(p, v) == Holds(p, v)

\* The while loop of filter: the buffers and res_count after it.
RECURSIVE FilterLoop(_, _, _, _, _, _, _)
FilterLoop(h, arr, res, p, arr_ndstor, res_ndstor, res_count) ==
    IF InRange(arr_ndstor) /\ InRange(res_ndstor)
    THEN LET v == ElementAt(arr.hdr, h[arr.buf], arr_ndstor.subs)
         IN IF FilterKeeps(p, v)
            THEN FilterLoop(WriteElement(h, res, res_ndstor.subs, v), arr, res, p,
                            Increment(arr_ndstor), Increment(res_ndstor),
                            res_count + 1)
            ELSE FilterLoop(h, arr, res, p, Increment(arr_ndstor), res_ndstor,
                            res_count)
    ELSE [heap |-> h, res_count |-> res_count]

\* filter(arr, func)
filter(h, arr, p) ==
    IF empty(arr.hdr, arr.buf # 0) THEN Returned(h, NullHandle)
    ELSE LET n == NewArray(h, <<arr.hdr.count>>)
             s == FilterLoop(n.heap, arr, n.arr, p, DefaultIterator(arr.hdr.dims),
                             DefaultIterator(n.arr.hdr.dims), 0)
         IN IF s.res_count = 0 THEN Returned(s.heap, NullHandle)
            ELSE IF s.res_count < arr.hdr.count
            THEN resize(s.heap, n.arr, <<s.res_count>>)
            ELSE Returned(s.heap, n.arr)

\* A variant that pushes the rank of the element in the walk.
FoundPosition_rank(hdr, subs) == SumOver([i \in 1..Len(subs) |-> subs[i] * compute_strides(hdr.dims)[i]])

\* subs2ind(arr.header().offset(), arr.header().strides(),
\*          arr.header().dims(), *arr_ndstor) in find
FoundPosition(hdr, subs) == subs2ind(hdr.offset, hdr.strides, hdr.dims, subs)

\* The while loop of find.
RECURSIVE FindLoop(_, _, _, _, _, _, _)
FindLoop(h, arr, res, p, arr_ndstor, res_ndstor, res_count) ==
    IF InRange(arr_ndstor) /\ InRange(res_ndstor)
    THEN IF Holds(p, ElementAt(arr.hdr, h[arr.buf], arr_ndstor.subs))
         THEN FindLoop(WriteElement(h, res, res_ndstor.subs,
                                    FoundPosition(arr.hdr, arr_ndstor.subs)),
                       arr, res, p, Increment(arr_ndstor), Increment(res_ndstor),
                       res_count + 1)
         ELSE FindLoop(h, arr, res, p, Increment(arr_ndstor), res_ndstor,
                       res_count)
    ELSE [heap |-> h, res_count |-> res_count]

\* find(arr, func)
find(h, arr, p) ==
    IF empty(arr.hdr, arr.buf # 0) THEN Returned(h, NullHandle)
    ELSE LET n == NewArray(h, <<arr.hdr.count>>)
             s == FindLoop(n.heap, arr, n.arr, p, DefaultIterator(arr.hdr.dims),
                           DefaultIterator(n.arr.hdr.dims), 0)
         IN IF s.res_count = 0 THEN Returned(s.heap, NullHandle)
            ELSE IF s.res_count < arr.hdr.count
            THEN resize(s.heap, n.arr, <<s.res_count>>)
            ELSE Returned(s.heap, n.arr)

\* The for loop of arr(indices).
RECURSIVE GatherLoop(_, _, _, _, _)
GatherLoop(h, arr, indices, res, iter) ==
    IF InRange(iter)
    THEN GatherLoop(WriteElement(h, res, iter.subs,
                                 h[arr.buf][ElementAt(indices.hdr, h[indices.buf],
                                                      iter.subs) + 1]),
                    arr, indices, res, Increment(iter))
    ELSE h

\* arr(indices): operator()(const Array<std::int64_t>&)
Gather(h, arr, indices) ==
    LET n == NewArray(h, indices.hdr.dims)
    IN Returned(GatherLoop(n.heap, arr, indices, n.arr,
                           DefaultIterator(indices.hdr.dims)),
                n.arr)

\* The data of the arrays of the filter and find tests: 1, 2, 3, 0, 5, 6.
TestData(n) == [p \in 1..n |-> IF p = 4 THEN 0 ELSE p]

\* The intervals a slice of A or B is asked for on one axis.
ShapeIntervals ==
    {Interval(0, 1, 1), Interval(1, 2, 1), Interval(0, 0, 1), Interval(0, 2, 2)}

\* The dims reshape and resize are asked for: of one or two axes.
NewDims == {d \in SeqsOf(1..MaxCount, 1, 2) : numel(d) <= MaxCount}

\* The subscript tuples of a non-empty header.
SubsOf(hdr) ==
    {t \in [1..Len(hdr.dims) -> 0..(MaxCount - 1)] :
        \A i \in 1..Len(hdr.dims) : t[i] < hdr.dims[i]}

ShapeInit ==
    /\ \E d \in Shapes :
         /\ sa = [hdr |-> HeaderOfDims(d), buf |-> 1, origin |-> 1]
         /\ \E data \in {Iota(numel(d)), TestData(numel(d))} : sheap = <<data>>
    /\ sb = NullHandle
    /\ sslices = 0
    /\ sop = NoSop
    /\ LayoutIdle /\ CursorIdle /\ OpsIdle /\ HandlesIdle

\* A = A(ranges), with 1..rank intervals
SSlice ==
    /\ sop.op = "none"
    /\ sslices < MaxSlices
    /\ \E ranges \in SeqsOf(ShapeIntervals, 1, Max(1, Len(sa.hdr.dims))) :
         sa' = SliceOf(sa, ranges)
    /\ sslices' = sslices + 1
    /\ UNCHANGED <<sb, sheap, sop>>
    /\ UNCHANGED <<layvars, curvars, opsvars, hndvars>>

\* A variant of the element access that does not wrap the subscripts.
ElementPosition_raw(arr, subs) ==
    subs2ind_nowrap(arr.hdr.offset, arr.hdr.strides, arr.hdr.dims, subs)

\* arr(subs): the position of buffsp_->data() that is read or written.
ElementPosition(arr, subs) ==
    subs2ind(arr.hdr.offset, arr.hdr.strides, arr.hdr.dims, subs)

\* A = A(ranges), with 1..rank intervals that may be strided, backward,
\* degenerate and have negative or too large bounds; slices of slices up to
\* MaxDepth.
ReachSlice ==
    /\ sop.op = "none"
    /\ sslices < MaxDepth
    /\ \E ranges \in SeqsOf(AxisIntervals, 1, Max(1, Len(sa.hdr.dims))) :
         sa' = SliceOf(sa, ranges)
    /\ sslices' = sslices + 1
    /\ UNCHANGED <<sb, sheap, sop>>
    /\ UNCHANGED <<layvars, curvars, opsvars, hndvars>>

\* The subscripts the element is asked for on one axis: they wrap to every
\* subscript of an axis of up to MaxDim entries.
ReachSubs == {-1, 0, 1, MaxDim}

\* A(subs), with fewer, as many or more subscripts than axes, in or out of
\* the extents
ReachAccess ==
    /\ sop.op = "none"
    /\ \E subs \in SeqsOf(ReachSubs, 1, Len(sa.hdr.dims) + 1) :
         sop' = [NoSop EXCEPT !.op = "access", !.subs = subs,
                              !.ind = ElementPosition(sa, subs)]
    /\ UNCHANGED <<sa, sb, sheap, sslices>>
    /\ UNCHANGED <<layvars, curvars, opsvars, hndvars>>

\* The call is recorded with what it returned.
Called(op, r) ==
    [NoSop EXCEPT !.op = op, !.res = r.arr, !.threw = r.threw, !.pre_heap = sheap]

\* clone(A)
SClone ==
    /\ sop.op = "none"
    /\ LET r == clone(sheap, sa)
       IN /\ sheap' = r.heap
          /\ sop' = Called("clone", r)
    /\ UNCHANGED <<sa, sb, sslices>>
    /\ UNCHANGED <<layvars, curvars, opsvars, hndvars>>

\* reshape(A, new_dims)
SReshape ==
    /\ sop.op = "none"
    /\ \E new_dims \in NewDims \cup {sa.hdr.dims} :
         LET r == reshape(sheap, sa, new_dims)
         IN /\ sheap' = r.heap
            /\ sop' = [Called("reshape", r) EXCEPT !.dims = new_dims]
    /\ UNCHANGED <<sa, sb, sslices>>
    /\ UNCHANGED <<layvars, curvars, opsvars, hndvars>>

\* resize(A, new_dims)
SResize ==
    /\ sop.op = "none"
    /\ \E new_dims \in NewDims \cup {sa.hdr.dims} :
         LET r == resize(sheap, sa, new_dims)
         IN /\ sheap' = r.heap
            /\ sop' = [Called("resize", r) EXCEPT !.dims = new_dims]
    /\ UNCHANGED <<sa, sb, sslices>>
    /\ UNCHANGED <<layvars, curvars, opsvars, hndvars>>

\* filter(A, p)
SFilter ==
    /\ sop.op = "none"
    /\ \E p \in Preds :
         LET r == filter(sheap, sa, p)
         IN /\ sheap' = r.heap
            /\ sop' = [Called("filter", r) EXCEPT !.p = p]
    /\ UNCHANGED <<sa, sb, sslices>>
    /\ UNCHANGED <<layvars, curvars, opsvars, hndvars>>

\* inds = find(A, p); then A(inds) unless inds is empty
SFind ==
    /\ sop.op = "none"
    /\ \E p \in Preds :
         LET r == find(sheap, sa, p)
             g == IF r.arr.hdr.usable THEN Gather(r.heap, sa, r.arr)
                  ELSE Returned(r.heap, NullHandle)
         IN /\ sheap' = g.heap
            /\ sop' = [Called("find", r) EXCEPT !.p = p, !.aux = g.arr]
    /\ UNCHANGED <<sa, sb, sslices>>
    /\ UNCHANGED <<layvars, curvars, opsvars, hndvars>>

\* res(subs) = 100 or A(subs) = 100 after clone or reshape returned res
SWrite ==
    /\ sop.op \in {"clone", "reshape"}
    /\ sop.via = "none"
    /\ sop.res.hdr.usable
    /\ \E via \in {"res", "arg"} :
         LET target == IF via = "res" THEN sop.res ELSE sa
         IN \E subs \in SubsOf(target.hdr) :
              /\ sheap' = WriteElement(sheap, target, subs, 100)
              /\ sop' = [sop EXCEPT !.via = via, !.subs = subs, !.mid_heap = sheap]
    /\ UNCHANGED <<sa, sb, sslices>>
    /\ UNCHANGED <<layvars, curvars, opsvars, hndvars>>

\* The for loop of operator=(const U& value).
RECURSIVE AssignValueLoop(_, _, _, _)
AssignValueLoop(h, arr, iter, value) ==
    IF InRange(iter)
    THEN AssignValueLoop(WriteElement(h, arr, iter.subs, value), arr,
                         Increment(iter), value)
    ELSE h

\* A variant that sets every element of the buffer.
AssignValue_buffer(h, arr, value) ==
    IF arr.buf = 0 THEN h
    ELSE [h EXCEPT ![arr.buf] = [p \in 1..Len(h[arr.buf]) |-> value]]

\* arr = value: operator=(const U& value); the buffers after it.
AssignValue(h, arr, value) ==
    IF empty(arr.hdr, arr.buf # 0) THEN h
    ELSE AssignValueLoop(h, arr, DefaultIterator(arr.hdr.dims), value)

\* A = 100, or Array{} = 100; the Array assigned to is recorded
SAssignValue ==
    /\ sop.op = "none"
    /\ \E arr \in {sa, NullHandle} :
         /\ sheap' = AssignValue(sheap, arr, 100)
         /\ sop' = [Called("assign_value", Returned(sheap, arr)) EXCEPT !.aux = arr]
    /\ UNCHANGED <<sa, sb, sslices>>
    /\ UNCHANGED <<layvars, curvars, opsvars, hndvars>>

\* remove(A, ind, count), without an axis
SRemoveFlat ==
    /\ sop.op = "none"
    /\ \E ind \in 0..(MaxCount - 1), count \in 1..MaxDim :
         LET r == remove_flat(sheap, sa, ind, count)
         IN /\ sheap' = r.heap
            /\ sop' = [Called("remove_flat", r) EXCEPT !.ind = ind, !.count = count]
    /\ UNCHANGED <<sa, sb, sslices>>
    /\ UNCHANGED <<layvars, curvars, opsvars, hndvars>>

ShapeNext ==
    \/ SSlice \/ SClone \/ SReshape \/ SResize \/ SFilter \/ SFind \/ SWrite
    \/ SAssignValue \/ SRemoveFlat

SpecShape == ShapeInit /\ [][ShapeNext]_vars

\* SpecReach: the array A built from a shape, sliced and sliced again, and
\* then asked for one element.
ReachNext == ReachSlice \/ ReachAccess

\* A with the data 1, 2, ..., count.
ReachInit == ShapeInit /\ sheap = <<Iota(sa.hdr.count)>>

SpecReach == ReachInit /\ [][ReachNext]_vars

\* Array_header(previous_dims, count, axis): the dims with count added to
\* the extent of axis
HeaderOfGrowth(previous_dims, count, axis) ==
    IF numel(previous_dims) <= 0 THEN EmptyHeader(FALSE)
    ELSE LET dims == [i \in 1..Len(previous_dims) |->
                         IF axis = i - 1 THEN previous_dims[i] + count
                         ELSE previous_dims[i]]
         IN IF numel(dims) <= 0 THEN EmptyHeader(FALSE)
            ELSE [dims |-> dims, strides |-> compute_strides(dims), offset |-> 0,
                  count |-> numel(dims), is_subarray |-> FALSE, usable |-> TRUE]

\* The checks of append and insert: the same extent on every axis but
\* fixed_axis.
SameButAxis(ldims, rdims, fixed_axis) ==
    \A i \in 1..Len(ldims) : i - 1 # fixed_axis => ldims[i] = rdims[i]

\* A variant that draws from lhs as long as lhs has elements.
AppendFromLhs_first(lhs_in_range, j, a, b) == lhs_in_range

\* lhsndstor && (*resndstor)[fixed_axis] < lhs.dims[fixed_axis]
\*     || (*resndstor)[fixed_axis] >= lhs.dims[fixed_axis] + rhs.dims[fixed_axis]
AppendFromLhs(lhs_in_range, j, a, b) == (lhs_in_range /\ j < a) \/ j >= a + b

\* The while loop of append.
RECURSIVE AppendLoop(_, _, _, _, _, _, _, _)
AppendLoop(h, lhs, rhs, res, fixed_axis, lhsndstor, rhsndstor, resndstor) ==
    IF InRange(resndstor)
    THEN LET j == resndstor.subs[fixed_axis + 1]
             a == lhs.hdr.dims[fixed_axis + 1]
             b == rhs.hdr.dims[fixed_axis + 1]
         IN IF AppendFromLhs(InRange(lhsndstor), j, a, b)
            THEN AppendLoop(WriteElement(h, res, resndstor.subs,
                                ElementAt(lhs.hdr, h[lhs.buf], lhsndstor.subs)),
                            lhs, rhs, res, fixed_axis, Increment(lhsndstor),
                            rhsndstor, Increment(resndstor))
            ELSE IF InRange(rhsndstor) /\ j >= a /\ j < a + b
            THEN AppendLoop(WriteElement(h, res, resndstor.subs,
                                ElementAt(rhs.hdr, h[rhs.buf], rhsndstor.subs)),
                            lhs, rhs, res, fixed_axis, lhsndstor,
                            Increment(rhsndstor), Increment(resndstor))
            ELSE AppendLoop(h, lhs, rhs, res, fixed_axis, lhsndstor, rhsndstor,
                            Increment(resndstor))
    ELSE h

\* append(lhs, rhs, axis)
append(h, lhs, rhs, axis) ==
    IF empty(lhs.hdr, lhs.buf # 0) THEN clone(h, rhs)
    ELSE IF empty(rhs.hdr, rhs.buf # 0) THEN clone(h, lhs)
    ELSE IF Len(lhs.hdr.dims) # Len(rhs.hdr.dims) THEN Thrown(h)
    ELSE LET fixed_axis == modulo(axis, Len(lhs.hdr.dims))
         IN IF ~SameButAxis(lhs.hdr.dims, rhs.hdr.dims, fixed_axis) THEN Thrown(h)
            ELSE LET new_header == HeaderOfGrowth(lhs.hdr.dims,
                                                  rhs.hdr.dims[fixed_axis + 1],
                                                  fixed_axis)
                     n == NewArray(h, <<lhs.hdr.count + rhs.hdr.count>>)
                     res == [hdr |-> new_header, buf |-> n.arr.buf,
                             origin |-> n.arr.origin]
                 IN IF ~new_header.usable THEN Returned(h, NullHandle)
                    ELSE Returned(AppendLoop(n.heap, lhs, rhs, res, fixed_axis,
                                             DefaultIterator(lhs.hdr.dims),
                                             DefaultIterator(rhs.hdr.dims),
                                             DefaultIterator(res.hdr.dims)),
                                  res)

\* A variant that takes the position as given.
InsertPosition_raw(ind, extent) == ind

\* fixed_ind{ modulo(ind, lhs.header().dims()[fixed_axis]) }
InsertPosition(ind, extent) == modulo(ind, extent)

\* The while loop of insert.
RECURSIVE InsertLoop(_, _, _, _, _, _, _, _, _)
InsertLoop(h, lhs, rhs, res, fixed_axis, fixed_ind, lhsndstor, rhsndstor, resndstor) ==
    IF InRange(resndstor)
    THEN LET j == resndstor.subs[fixed_axis + 1]
             b == rhs.hdr.dims[fixed_axis + 1]
         IN IF (InRange(lhsndstor) /\ j < fixed_ind) \/ j >= fixed_ind + b
            THEN InsertLoop(WriteElement(h, res, resndstor.subs,
                                ElementAt(lhs.hdr, h[lhs.buf], lhsndstor.subs)),
                            lhs, rhs, res, fixed_axis, fixed_ind,
                            Increment(lhsndstor), rhsndstor, Increment(resndstor))
            ELSE IF InRange(rhsndstor) /\ j >= fixed_ind /\ j < fixed_ind + b
            THEN InsertLoop(WriteElement(h, res, resndstor.subs,
                                ElementAt(rhs.hdr, h[rhs.buf], rhsndstor.subs)),
                            lhs, rhs, res, fixed_axis, fixed_ind,
                            lhsndstor, Increment(rhsndstor), Increment(resndstor))
            ELSE InsertLoop(h, lhs, rhs, res, fixed_axis, fixed_ind, lhsndstor,
                            rhsndstor, Increment(resndstor))
    ELSE h

\* insert(lhs, rhs, ind, axis)
insert(h, lhs, rhs, ind, axis) ==
    IF empty(lhs.hdr, lhs.buf # 0) THEN clone(h, rhs)
    ELSE IF empty(rhs.hdr, rhs.buf # 0) THEN clone(h, lhs)
    ELSE IF Len(lhs.hdr.dims) # Len(rhs.hdr.dims) THEN Thrown(h)
    ELSE LET fixed_axis == modulo(axis, Len(lhs.hdr.dims))
         IN IF ~SameButAxis(lhs.hdr.dims, rhs.hdr.dims, fixed_axis) THEN Thrown(h)
            ELSE LET fixed_ind == InsertPosition(ind, lhs.hdr.dims[fixed_axis + 1])
                     new_header == HeaderOfGrowth(lhs.hdr.dims,
                                                  rhs.hdr.dims[fixed_axis + 1],
                                                  fixed_axis)
                     n == NewArray(h, <<lhs.hdr.count + rhs.hdr.count>>)
                     res == [hdr |-> new_header, buf |-> n.arr.buf,
                             origin |-> n.arr.origin]
                 IN IF ~new_header.usable THEN Returned(h, NullHandle)
                    ELSE Returned(InsertLoop(n.heap, lhs, rhs, res, fixed_axis,
                                             fixed_ind,
                                             DefaultIterator(lhs.hdr.dims),
                                             DefaultIterator(rhs.hdr.dims),
                                             DefaultIterator(res.hdr.dims)),
                                  res)

\* A variant that keeps only the elements before the removed ones.
RemoveKeeps_head(res_in_range, j, fixed_ind, fixed_count) ==
    res_in_range /\ j < fixed_ind

\* resndstor && (*arrndstor)[fixed_axis] < fixed_ind
\*     || (*arrndstor)[fixed_axis] >= fixed_ind + fixed_count
RemoveKeeps(res_in_range, j, fixed_ind, fixed_count) ==
    (res_in_range /\ j < fixed_ind) \/ j >= fixed_ind + fixed_count

\* The while loop of remove.
RECURSIVE RemoveLoop(_, _, _, _, _, _, _, _)
RemoveLoop(h, arr, res, fixed_axis, fixed_ind, fixed_count, arrndstor, resndstor) ==
    IF InRange(arrndstor)
    THEN IF RemoveKeeps(InRange(resndstor), arrndstor.subs[fixed_axis + 1],
                        fixed_ind, fixed_count)
         THEN RemoveLoop(WriteElement(h, res, resndstor.subs,
                             ElementAt(arr.hdr, h[arr.buf], arrndstor.subs)),
                         arr, res, fixed_axis, fixed_ind, fixed_count,
                         Increment(arrndstor), Increment(resndstor))
         ELSE RemoveLoop(h, arr, res, fixed_axis, fixed_ind, fixed_count,
                         Increment(arrndstor), resndstor)
    ELSE h

\* remove(arr, ind, count, axis)
remove(h, arr, ind, count, axis) ==
    IF empty(arr.hdr, arr.buf # 0) THEN Returned(h, NullHandle)
    ELSE LET fixed_axis == modulo(axis, Len(arr.hdr.dims))
             extent == arr.hdr.dims[fixed_axis + 1]
             fixed_ind == modulo(ind, extent)
             fixed_count == IF fixed_ind + count <= extent THEN count
                            ELSE extent - fixed_ind
             new_header == HeaderOfGrowth(arr.hdr.dims, -fixed_count, fixed_axis)
             n == NewArray(h, <<arr.hdr.count
                                  - (arr.hdr.count \div extent) * fixed_count>>)
             res == [hdr |-> new_header, buf |-> n.arr.buf, origin |-> n.arr.origin]
         IN IF ~new_header.usable THEN Returned(h, NullHandle)
            ELSE Returned(RemoveLoop(n.heap, arr, res, fixed_axis, fixed_ind,
                                     fixed_count,
                                     DefaultIterator(arr.hdr.dims),
                                     DefaultIterator(res.hdr.dims)),
                          res)

\* A variant that compares the number of axes only.
TransformChecks_rank(ldims, rdims) == Len(ldims) = Len(rdims)

\* lhs.header().dims() == rhs.header().dims() in transform
TransformChecks(ldims, rdims) == ldims = rdims

\* The while loop of transform, func the sum of its arguments.
RECURSIVE TransformLoop(_, _, _, _, _)
TransformLoop(h, lhs, rhs, res, ndstor) ==
    IF InRange(ndstor)
    THEN TransformLoop(WriteElement(h, res, ndstor.subs,
                           ElementAt(lhs.hdr, h[lhs.buf], ndstor.subs)
                           + ElementAt(rhs.hdr, h[rhs.buf], ndstor.subs)),
                       lhs, rhs, res, Increment(ndstor))
    ELSE h

\* transform(lhs, rhs, func)
transform(h, lhs, rhs) ==
    IF ~TransformChecks(lhs.hdr.dims, rhs.hdr.dims) THEN Thrown(h)
    ELSE LET n == NewArray(h, lhs.hdr.dims)
         IN Returned(TransformLoop(n.heap, lhs, rhs, n.arr,
                                   DefaultIterator(lhs.hdr.dims)),
                     n.arr)

\* The dims of A and B: of one rank and the same but on one axis at most, or
\* one of them of rank 1.
JoinPairs ==
    {pr \in Shapes \X Shapes :
        \/ /\ Len(pr[1]) = Len(pr[2])
           /\ Cardinality({i \in 1..Len(pr[1]) : pr[1][i] # pr[2][i]}) <= 1
        \/ Len(pr[1]) = 1
        \/ Len(pr[2]) = 1}

\* The data of B: 11, 12, ...
JoinData(n) == [p \in 1..n |-> 10 + p]

JoinInit ==
    /\ \E pr \in JoinPairs :
         /\ sa = [hdr |-> HeaderOfDims(pr[1]), buf |-> 1, origin |-> 1]
         /\ sb = [hdr |-> HeaderOfDims(pr[2]), buf |-> 2, origin |-> 2]
         /\ sheap = <<Iota(numel(pr[1])), JoinData(numel(pr[2]))>>
    /\ sslices = 0
    /\ sop = NoSop
    /\ LayoutIdle /\ CursorIdle /\ OpsIdle /\ HandlesIdle

\* A = A(ranges) or B = B(ranges), with intervals for the first axis or the
\* first two
JSlice ==
    /\ sop.op = "none"
    /\ sslices < MaxSlices
    /\ \E which \in {"A", "B"} :
         LET arr == IF which = "A" THEN sa ELSE sb
         IN \E ranges \in SeqsOf(ShapeIntervals, 1, Min(2, Max(1, Len(arr.hdr.dims)))) :
              /\ sa' = IF which = "A" THEN SliceOf(sa, ranges) ELSE sa
              /\ sb' = IF which = "B" THEN SliceOf(sb, ranges) ELSE sb
    /\ sslices' = sslices + 1
    /\ UNCHANGED <<sheap, sop>>
    /\ UNCHANGED <<layvars, curvars, opsvars, hndvars>>

\* append(A, B, axis)
JAppend ==
    /\ sop.op = "none"
    /\ \E axis \in 0..(MaxRank - 1) :
         LET r == append(sheap, sa, sb, axis)
         IN /\ sheap' = r.heap
            /\ sop' = [Called("append", r) EXCEPT !.axis = axis]
    /\ UNCHANGED <<sa, sb, sslices>>
    /\ UNCHANGED <<layvars, curvars, opsvars, hndvars>>

\* insert(A, B, ind, axis)
JInsert ==
    /\ sop.op = "none"
    /\ \E ind \in 0..MaxDim, axis \in 0..(MaxRank - 1) :
         LET r == insert(sheap, sa, sb, ind, axis)
         IN /\ sheap' = r.heap
            /\ sop' = [Called("insert", r) EXCEPT !.ind = ind, !.axis = axis]
    /\ UNCHANGED <<sa, sb, sslices>>
    /\ UNCHANGED <<layvars, curvars, opsvars, hndvars>>

\* remove(res, ind, B.dims[axis], axis), res what insert(A, B, ind, axis)
\* returned, B not empty
JRemove ==
    /\ sop.op = "insert"
    /\ ~sop.threw
    /\ sb.hdr.usable
    /\ LET fixed_axis == modulo(sop.axis, Len(sb.hdr.dims))
           count == sb.hdr.dims[fixed_axis + 1]
           r == remove(sheap, sop.res, sop.ind, count, sop.axis)
       IN /\ sheap' = r.heap
          /\ sop' = [sop EXCEPT !.op = "remove", !.count = count, !.aux = sop.res,
                                !.res = r.arr, !.threw = r.threw,
                                !.pre_heap = sheap]
    /\ UNCHANGED <<sa, sb, sslices>>
    /\ UNCHANGED <<layvars, curvars, opsvars, hndvars>>

\* copy(A, B)
JCopy ==
    /\ sop.op = "none"
    /\ sheap' = copy(sheap, sa, sb)
    /\ sop' = Called("copy", Returned(sheap, NullHandle))
    /\ UNCHANGED <<sa, sb, sslices>>
    /\ UNCHANGED <<layvars, curvars, opsvars, hndvars>>

\* transform(A, B, plus), as A + B calls it
JTransform ==
    /\ sop.op = "none"
    /\ LET r == transform(sheap, sa, sb)
       IN /\ sheap' = r.heap
          /\ sop' = Called("transform", r)
    /\ UNCHANGED <<sa, sb, sslices>>
    /\ UNCHANGED <<layvars, curvars, opsvars, hndvars>>

\* A += B: lhs = transform(lhs, rhs, plus), the assignment of an rvalue
\* (the header and the buffer pointer are taken over); nothing is assigned if
\* transform threw.
JPlusAssign ==
    /\ sop.op = "none"
    /\ LET r == transform(sheap, sa, sb)
       IN /\ sheap' = r.heap
          /\ sa' = IF r.threw THEN sa ELSE r.arr
          /\ sop' = [Called("plus_assign", r) EXCEPT !.aux = sa]
    /\ UNCHANGED <<sb, sslices>>
    /\ UNCHANGED <<layvars, curvars, opsvars, hndvars>>

\* append(A, B), without an axis
JAppendFlat ==
    /\ sop.op = "none"
    /\ LET r == append_flat(sheap, sa, sb)
       IN /\ sheap' = r.heap
          /\ sop' = Called("append_flat", r)
    /\ UNCHANGED <<sa, sb, sslices>>
    /\ UNCHANGED <<layvars, curvars, opsvars, hndvars>>

JoinNext ==
    \/ JSlice \/ JAppend \/ JInsert \/ JRemove \/ JCopy \/ JTransform
    \/ JPlusAssign \/ JAppendFlat

SpecJoin == JoinInit /\ [][JoinNext]_vars

(***************************************************************************)
(* SpecVoid: the arrays A and B of SpecJoin, each possibly sliced to an    *)
(* empty array, handed to transform with an array or with a scalar.        *)
(* transform has no test for empty operands: with empty dims its cursor    *)
(* has no subscripts, and operator bool reads subs_[major_axis_],          *)
(* minimum_excluded_[major_axis_] and maximum_excluded_[major_axis_] of    *)
(* lists without entries.  What that read gives is not defined: the loop   *)
(* is not entered ("false"), is entered ("true"), or the call does not     *)
(* return ("fault").                                                       *)
(***************************************************************************)
\* The intervals a slice is asked for on the first axis: start > stop and a
\* zero step give an empty array.
VoidIntervals == {Interval(2, 1, 1), Interval(0, 0, 0), Interval(0, 1, 1)}

\* What operator bool of a cursor without subscripts can give.
VoidOutcomes == {"false", "true", "fault"}

\* The scalar handed to transform.
Scalar == 10

\* The func handed to transform with a scalar.
func(a, b) == a - b

\* The entries (0-based) of subs_ that operator bool reads: that of the
\* first axis of the order, or of the major axis.
bool_reads(it) == {OuterAxis(it)}

\* The while loop of transform with a scalar; left tells that the scalar is
\* the first argument of func.
RECURSIVE TransformScalarLoop(_, _, _, _, _)
TransformScalarLoop(h, arr, left, res, ndstor) ==
    IF InRange(ndstor)
    THEN TransformScalarLoop(
             WriteElement(h, res, ndstor.subs,
                 IF left
                 THEN func(Scalar, ElementAt(arr.hdr, h[arr.buf], ndstor.subs))
                 ELSE func(ElementAt(arr.hdr, h[arr.buf], ndstor.subs), Scalar)),
             arr, left, res, Increment(ndstor))
    ELSE h

\* What a walk of transform over dims leaves, the result array n allocated:
\* the buffers, whether it came back, the number of calls of func and the
\* entries its cursor read of a list of no subscripts.
WalkOf(dims, n, filled, outcome) ==
    LET ndstor == DefaultIterator(dims)
    IN IF ndstor.nsubs > 0
       THEN [heap |-> filled, arr |-> n.arr, threw |-> FALSE, fault |-> FALSE,
             evals |-> numel(dims), void_reads |-> {}]
       ELSE [heap |-> n.heap, arr |-> n.arr, threw |-> FALSE,
             fault |-> outcome = "fault",
             evals |-> IF outcome = "true" THEN 1 ELSE 0,
             void_reads |-> bool_reads(ndstor)]

\* transform(lhs, rhs, func) for operands that may be empty
transform_any(h, lhs, rhs, outcome) ==
    IF ~TransformChecks(lhs.hdr.dims, rhs.hdr.dims)
    THEN [heap |-> h, arr |-> NullHandle, threw |-> TRUE, fault |-> FALSE,
          evals |-> 0, void_reads |-> {}]
    ELSE LET n == NewArray(h, lhs.hdr.dims)
         IN WalkOf(lhs.hdr.dims, n,
                   IF Len(lhs.hdr.dims) > 0
                   THEN TransformLoop(n.heap, lhs, rhs, n.arr,
                                      DefaultIterator(lhs.hdr.dims))
                   ELSE n.heap,
                   outcome)

\* transform(arr, scalar, func) and transform(scalar, arr, func)
transform_scalar(h, arr, left, outcome) ==
    LET n == NewArray(h, arr.hdr.dims)
    IN WalkOf(arr.hdr.dims, n,
              IF Len(arr.hdr.dims) > 0
              THEN TransformScalarLoop(n.heap, arr, left, n.arr,
                                       DefaultIterator(arr.hdr.dims))
              ELSE n.heap,
              outcome)

\* A = A(ranges) or B = B(ranges), with an interval for the first axis
VoidSlice ==
    /\ sop.op = "none"
    /\ sslices < MaxSetup
    /\ \E which \in {"A", "B"} :
       \E ranges \in SeqsOf(VoidIntervals, 1, 1) :
          /\ sa' = IF which = "A" THEN SliceOf(sa, ranges) ELSE sa
          /\ sb' = IF which = "B" THEN SliceOf(sb, ranges) ELSE sb
    /\ sslices' = sslices + 1
    /\ UNCHANGED <<sheap, sop>>
    /\ UNCHANGED <<layvars, curvars, opsvars, hndvars>>

\* The call is recorded with its operands and with what the walk left.
VoidCalled(op, r) ==
    [op |-> op, res |-> r.arr, threw |-> r.threw, fault |-> r.fault,
     evals |-> r.evals, void_reads |-> r.void_reads, pre_heap |-> sheap]

\* The outcomes of a read that is not defined are open only where it is
\* made.
Defined(r, outcome) == r.void_reads = {} => outcome = "false"

\* transform(A, B, func)
VoidTransform ==
    /\ sop.op = "none"
    /\ \E outcome \in VoidOutcomes :
         LET r == transform_any(sheap, sa, sb, outcome)
         IN /\ Defined(r, outcome)
            /\ sheap' = r.heap
            /\ sop' = VoidCalled("transform", r)
    /\ UNCHANGED <<sa, sb, sslices>>
    /\ UNCHANGED <<layvars, curvars, opsvars, hndvars>>

\* transform(A, scalar, func)
VoidTransformScalar ==
    /\ sop.op = "none"
    /\ \E outcome \in VoidOutcomes :
         LET r == transform_scalar(sheap, sa, FALSE, outcome)
         IN /\ Defined(r, outcome)
            /\ sheap' = r.heap
            /\ sop' = VoidCalled("transform_scalar", r)
    /\ UNCHANGED <<sa, sb, sslices>>
    /\ UNCHANGED <<layvars, curvars, opsvars, hndvars>>

\* transform(scalar, A, func)
VoidScalarTransform ==
    /\ sop.op = "none"
    /\ \E outcome \in VoidOutcomes :
         LET r == transform_scalar(sheap, sa, TRUE, outcome)
         IN /\ Defined(r, outcome)
            /\ sheap' = r.heap
            /\ sop' = VoidCalled("scalar_transform", r)
    /\ UNCHANGED <<sa, sb, sslices>>
    /\ UNCHANGED <<layvars, curvars, opsvars, hndvars>>

VoidNext ==
    VoidSlice \/ VoidTransform \/ VoidTransformScalar \/ VoidScalarTransform

SpecVoid == JoinInit /\ [][VoidNext]_vars

(***************************************************************************)
(* Claims about element access and slicing.                                *)
(***************************************************************************)
\* The Euclidean remainder of v by n > 0, from its definition.
EMod(v, n) ==
    CHOOSE r \in 0..(n - 1) :
        \E q \in (-(Max(v, -v) + 1))..(Max(v, -v) + 1) : v = q * n + r

\* subs as a tuple of exactly n subscripts: missing leading subscripts are 0,
\* subscripts after the first n are dropped.
Padded(subs, n) ==
    LET m == Len(subs)
    IN [i \in 1..n |->
          IF m >= n THEN subs[i]
          ELSE IF i <= n - m THEN 0 ELSE subs[i - (n - m)]]

\* offset + sum of strides[i] * (p[i] mod dims[i]) for a full tuple p.
DotPos(h, p) ==
    h.offset + SumTo([i \in 1..Len(h.dims) |-> h.strides[i] * EMod(p[i], h.dims[i])],
                     Len(h.dims))

\* C1: an element access with m >= 1 subscripts on a non-empty layout of
\* rank N resolves to offset + sum strides[i] * (s[i] mod dims[i]), where
\* fewer than N subscripts address the last m axes (leading subscripts 0)
\* and subscripts after the first N are ignored.
C1_AccessPosition ==
    lop.op = "access" => lop.ind = DotPos(lay, Padded(lop.subs, Len(lay.dims)))

\* An access to a view with non-zero offset, with fewer subscripts than
\* axes, one of them negative.
C1_Witness ==
    /\ lop.op = "access"
    /\ lay.is_subarray /\ lay.offset > 0
    /\ Len(lop.subs) < Len(lay.dims)
    /\ \E i \in 1..Len(lop.subs) : lop.subs[i] < 0

\* An access with more subscripts than axes, one of them too large.
C1_WitnessExtra ==
    /\ lop.op = "access"
    /\ Len(lop.subs) > Len(lay.dims)
    /\ \E i \in 1..Len(lay.dims) : lop.subs[i] >= lay.dims[i]

\* An interval as the slice uses it on an axis of n entries: start and stop
\* wrapped into [0, n), then made forward.
Canon(iv, n) == forward(modulo_interval(iv, n))

\* The least integer c with c * t >= x, for x >= 1 and t >= 1.
CeilOf(x, t) == CHOOSE c \in 1..x : c * t >= x /\ (c - 1) * t < x

\* C3: slicing a non-empty parent P with k <= N intervals that canonicalise
\* to {s, e, t} gives, on every specified axis, dims = ceil((e - s + 1) / t)
\* and strides = P.strides * t; offset = P.offset + sum P.strides * s;
\* count = product of dims; is_view = true; the result is empty when some
\* canonicalised interval has s > e.
C3_SliceLayout ==
    lop.op = "slice" =>
        LET P == lop.parent
            k == Len(lop.ivs)
            c == [i \in 1..k |-> Canon(lop.ivs[i], P.dims[i])]
        IN /\ lay.is_subarray
           /\ (\E i \in 1..k : c[i].start > c[i].stop) => ~lay.usable /\ lay.count = 0
           /\ (\A i \in 1..k : c[i].start <= c[i].stop /\ c[i].step > 0) =>
                 /\ lay.usable
                 /\ Len(lay.dims) = Len(P.dims) /\ Len(lay.strides) = Len(P.dims)
                 /\ \A i \in 1..k :
                       /\ lay.dims[i] = CeilOf(c[i].stop - c[i].start + 1, c[i].step)
                       /\ lay.strides[i] = P.strides[i] * c[i].step
                 /\ lay.offset = P.offset
                       + SumTo([i \in 1..k |-> P.strides[i] * c[i].start], k)
                 /\ lay.count = ProdTo(lay.dims, Len(lay.dims))

\* A non-empty slice of a view, taken with a wrapping backward interval of
\* step 2 that keeps more than one entry.
C3_Witness ==
    /\ lop.op = "slice" /\ lay.usable
    /\ lop.parent.is_subarray /\ lop.parent.offset > 0
    /\ \E i \in 1..Len(lop.ivs) :
          /\ lop.ivs[i].step < -1 /\ lop.ivs[i].start < 0
          /\ lay.dims[i] > 1

\* An empty slice: some canonicalised interval has start > stop.
C3_WitnessEmpty ==
    /\ lop.op = "slice" /\ ~lay.usable
    /\ \E i \in 1..Len(lop.ivs) :
          Canon(lop.ivs[i], lop.parent.dims[i]).start
             > Canon(lop.ivs[i], lop.parent.dims[i]).stop

\* C4: when a slice has fewer intervals than the rank, every axis without
\* an interval keeps the parent's dims and the parent's strides, for every
\* parent, strided views included.
C4_TrailingAxesCarried ==
    lop.op = "slice" /\ lay.usable =>
        \A i \in (Len(lop.ivs) + 1)..Len(lay.dims) :
            /\ lay.dims[i] = lop.parent.dims[i]
            /\ lay.strides[i] = lop.parent.strides[i]

(***************************************************************************)
(* Claims about cursors.                                                   *)
(***************************************************************************)
\* The subscript tuple of rank r (0-based) when the axes ord[1], ..., ord[n]
\* are walked with ord[n] varying fastest and ord[1] slowest.
TupleAt(r, dims, ord) ==
    LET n == Len(dims)
        inner(j) == ProdOver([l \in 1..(n - j) |-> dims[ord[j + l] + 1]])
        place(a) == CHOOSE j \in 1..n : ord[j] = a
    IN [i \in 1..n |-> (r \div inner(place(i - 1))) % dims[i]]

RowMajor(n) == [j \in 1..n |-> j - 1]

\* The flat position the array gives the cursor's subscripts.
CursorFlat == subs2ind(carr.offset, carr.strides, carr.dims, cur.subs)

\* C6: a default cursor is in range exactly at the count positions from its
\* start on, where it yields the flat positions in row-major order; one
\* advance further it is out of range, one retreat from there it is at the
\* last position, retreats visit the positions in reverse down to out of
\* range before the first, and one advance from there is the first position.
C6_DefaultCursorWalk ==
    ckind = "default" =>
        /\ crank \in (-1)..carr.count
        /\ InRange(cur) <=> crank \in 0..(carr.count - 1)
        /\ InRange(cur) =>
              /\ cur.subs = TupleAt(crank, carr.dims, RowMajor(Len(carr.dims)))
              /\ CursorFlat = crank

\* A default cursor of a rank-3 array back at its last position after it
\* left the range at the end.
C6_Witness ==
    /\ ckind = "default" /\ Len(carr.dims) = 3 /\ carr.count > 3
    /\ cmove = "retreat" /\ crank = carr.count - 1 /\ InRange(cur)

\* C7: a cursor built with an order that is a permutation of the axes is in
\* range exactly at count positions and visits every subscript tuple once,
\* the last axis of the order varying fastest and the first slowest.
C7_OrderCursorWalk ==
    ckind = "order" =>
        /\ InRange(cur) <=> crank \in 0..(carr.count - 1)
        /\ InRange(cur) => cur.subs = TupleAt(crank, carr.dims, carg)

\* dims [3,1,2] walked in the order [2,0,1]: the fifth position is flat 3.
C7_Witness ==
    /\ ckind = "order" /\ carr.dims = <<3, 1, 2>> /\ carg = <<2, 0, 1>>
    /\ crank = 4 /\ CursorFlat = 3 /\ cmove = "advance"

\* The order that has the axis a first and the other axes after it in
\* ascending order.
MajorFirst(a, n) ==
    [j \in 1..n |-> IF j = 1 THEN a ELSE IF j - 2 < a THEN j - 2 ELSE j - 1]

\* C8: a cursor built with a single major axis a walks the whole layout
\* with the axis a outermost (slowest) and the other axes row-major inside.
C8_MajorAxisOutermost ==
    ckind = "axis" /\ InRange(cur) =>
        cur.subs = TupleAt(crank, carr.dims, MajorFirst(carg[1], Len(carr.dims)))

(***************************************************************************)
(* Claims about reduce and transpose.                                      *)
(***************************************************************************)
\* The subscript tuples of an array of the given dims (none for the empty
\* array, which has no dims).
Tuples(dims) ==
    IF Len(dims) = 0 THEN {}
    ELSE {t \in [1..Len(dims) -> 0..(MaxDim - 1)] :
             \A i \in 1..Len(dims) : t[i] < dims[i]}

\* dims with the axis a removed; <<1>> when that leaves nothing.
WithoutAxis(dims, a) ==
    IF Len(dims) = 1 THEN <<1>>
    ELSE SubSeq(dims, 1, a) \o SubSeq(dims, a + 2, Len(dims))

\* The subscripts of the operand that has k on the axis a and the subscripts
\* t on the other axes.
Along(t, a, k) ==
    IF Len(oarr.dims) = 1 THEN <<k>>
    ELSE SubSeq(t, 1, a) \o <<k>> \o SubSeq(t, a + 1, Len(t))

\* The fold of the elements 0..k of the operand along the axis a at t, from
\* the first on, each step func(element, folded so far).
RECURSIVE FoldAlong(_, _, _, _)
FoldAlong(f, t, a, k) ==
    IF k = 0 THEN ElementAt(oarr, obuf, Along(t, a, 0))
    ELSE Apply(f, ElementAt(oarr, obuf, Along(t, a, k)), FoldAlong(f, t, a, k - 1))

\* C9: reduce(A, f, axis) of a non-empty A with 0 <= axis < rank returns an
\* array of A's shape without that axis (<<1>> for a 1-D A), every element
\* of it assigned, the element at each tuple the fold by f, from the first
\* element on, of A's elements along the axis at that tuple; for A = 1..6 of
\* shape [3,1,2] and the sum the results are [1,2]:[9,12], [3,2]:[1..6] and
\* [3,1]:[3,7,11].
C9_ReduceAlongAxis ==
    (oop.op = "reduce" /\ oarr.usable /\ oop.axis < Len(oarr.dims)) =>
        LET a == oop.axis
            res == oop.res
        IN /\ res.hdr = HeaderOfDims(WithoutAxis(oarr.dims, a))
           /\ Len(res.data) = res.hdr.count
           /\ res.written = 0..(res.hdr.count - 1)
           /\ \A t \in Tuples(res.hdr.dims) :
                 ElementAt(res.hdr, res.data, t)
                     = FoldAlong(oop.f, t, a, oarr.dims[a + 1] - 1)
           /\ (oarr = HeaderOfDims(<<3, 1, 2>>) /\ oop.f = "sum") =>
                 /\ a = 0 => res.hdr.dims = <<1, 2>> /\ res.data = <<9, 12>>
                 /\ a = 1 => res.hdr.dims = <<3, 2>> /\ res.data = <<1, 2, 3, 4, 5, 6>>
                 /\ a = 2 => res.hdr.dims = <<3, 1>> /\ res.data = <<3, 7, 11>>

\* The digits of the columns of a strided view of a [3,2] array, folded
\* along axis 0 in order.
C9_Witness ==
    /\ oop.op = "reduce" /\ oop.f = "digits" /\ oop.axis = 0
    /\ oarr.is_subarray /\ oarr.dims = <<2, 2>> /\ oarr.strides = <<4, 1>>
    /\ oop.res.hdr.dims = <<2>> /\ oop.res.data = <<15, 26>>

\* The sum along axis 0 of 1..6 of shape [3,1,2].
C9_WitnessSum ==
    /\ oop.op = "reduce" /\ oop.f = "sum" /\ oop.axis = 0
    /\ oarr = HeaderOfDims(<<3, 1, 2>>)
    /\ oop.res.hdr.dims = <<1, 2>> /\ oop.res.data = <<9, 12>>

\* C10: transpose(A, pi) of a non-empty A by a permutation pi of the axes
\* has dims'[i] = A.dims[pi(i)], and its element at (j_0, ..., j_{N-1}) is
\* the element of A whose subscript on the axis pi(i) is j_i.
C10_Transpose ==
    (oop.op = "transpose" /\ oarr.usable) =>
        LET n == Len(oarr.dims)
            pi == oop.order
            res == oop.res
            place(a) == CHOOSE i \in 1..n : pi[i] = a
        IN /\ res.hdr.usable
           /\ res.hdr.dims = [i \in 1..n |-> oarr.dims[pi[i] + 1]]
           /\ \A j \in Tuples(res.hdr.dims) :
                 ElementAt(res.hdr, res.data, j)
                     = ElementAt(oarr, obuf, [x \in 1..n |-> j[place(x - 1)]])

(***************************************************************************)
(* Claims about handles that share a buffer.                               *)
(***************************************************************************)
\* The handle of the array built from a shape that an Array derives from.
RootOf(arr) == IF arr.origin = 1 THEN "A" ELSE "B"

\* The element an Array reads at a full subscript tuple in range, by the
\* position formula.
ReadAt(h, arr, t) == h[arr.buf][DotPos(arr.hdr, t) + 1]

\* C2: after any slices and handle copies, a write through a handle at
\* subscripts s changes the handle's buffer at the flat position s resolves
\* to and nothing else; every handle that derives from the same array
\* shares the buffer and reads the new value at every subscript tuple that
\* resolves to that position, and the array built from the shape has such a
\* tuple.  For A = 1..6 of shape [3,1,2] and V = A({1,2},{0},{1,1,2}),
\* V(0,0,0) = 100 makes A's buffer 1,2,3,100,5,6.
C2_WriteThroughView ==
    hop.op = "write" =>
        LET arr == hnd[hop.dst]
            p == DotPos(arr.hdr, hop.subs)
            root == hnd[RootOf(arr)]
        IN /\ p \in 0..(Len(heap[arr.buf]) - 1)
           /\ heap[arr.buf][p + 1] = 100
           /\ \A b \in 1..2 :
                 /\ Len(heap[b]) = Len(hop.pre_heap[b])
                 /\ \A q \in 1..Len(heap[b]) :
                       (b # arr.buf \/ q # p + 1) => heap[b][q] = hop.pre_heap[b][q]
           /\ \A g \in Handles :
                 hnd[g].origin = arr.origin =>
                    /\ hnd[g].buf = arr.buf
                    /\ \A t \in Tuples(hnd[g].hdr.dims) :
                          DotPos(hnd[g].hdr, t) = p
                             => ElementAt(hnd[g].hdr, heap[hnd[g].buf], t) = 100
           /\ \E t \in Tuples(root.hdr.dims) :
                 /\ DotPos(root.hdr, t) = p
                 /\ ElementAt(root.hdr, heap[root.buf], t) = 100
           /\ ( /\ hnd["A"].hdr = HeaderOfDims(<<3, 1, 2>>)
                /\ hop.dst = "V"
                /\ hnd["V"] = SliceOf(hnd["A"], <<Interval(1, 2, 1), Interval(0, 0, 1),
                                                  Interval(1, 1, 2)>>)
                /\ hop.subs = <<0, 0, 0>> )
              => heap[1] = <<1, 2, 3, 100, 5, 6>>

\* The write of the example, with a second view of A at hand.
C2_Witness ==
    /\ hop.op = "write" /\ hop.dst = "V" /\ hop.subs = <<0, 0, 0>>
    /\ hnd["A"].hdr.dims = <<3, 1, 2>>
    /\ hnd["V"].hdr.is_subarray /\ hnd["V"].hdr.dims = <<2, 1, 1>>
    /\ hnd["V"].hdr.offset = 3
    /\ hnd["W"].hdr.is_subarray /\ hnd["W"].origin = 1
    /\ heap[1] = <<1, 2, 3, 100, 5, 6>>

\* The buffers after the first r elements of src, in row-major order of the
\* subscript tuples, were copied one by one to the same tuples of dst.
RECURSIVE CopiedUpTo(_, _, _, _)
CopiedUpTo(h0, src, dst, r) ==
    IF r = 0 THEN h0
    ELSE LET h == CopiedUpTo(h0, src, dst, r - 1)
             t == TupleAt(r - 1, dst.hdr.dims, RowMajor(Len(dst.hdr.dims)))
         IN [h EXCEPT ![dst.buf] =
                [q \in 1..Len(h[dst.buf]) |->
                    IF q = DotPos(dst.hdr, t) + 1 THEN ReadAt(h, src, t)
                    ELSE h[dst.buf][q]]]

\* The positions of its buffer an Array addresses.
Addressed(arr) == {DotPos(arr.hdr, t) : t \in Tuples(arr.hdr.dims)}

\* C5 as stated: an assignment to a destination that is a view of the
\* source's shape copies the elements into the positions the view addresses
\* and does not rebind the destination; every other assignment rebinds the
\* destination to the source and changes no element.  The destination is
\* the named handle of dst = src and the slice expression of
\* dst(ranges) = src; both it and the source are non-empty.
C5_AssignViewPreserved ==
    (hop.op \in {"assign", "assignview"} /\ hop.before.hdr.usable
        /\ hnd[hop.src].hdr.usable) =>
        LET src == hnd[hop.src]
            dst == hop.before
        IN IF dst.hdr.is_subarray /\ dst.hdr.dims = src.hdr.dims
           THEN /\ hop.after = dst
                /\ heap = CopiedUpTo(hop.pre_heap, src, dst, dst.hdr.count)
           ELSE /\ hop.after = src
                /\ heap = hop.pre_heap

\* An assignment to a named handle that holds a view of the source's shape,
\* from a handle of another buffer.
C5_WitnessNamedView ==
    /\ hop.op = "assign"
    /\ hop.before.hdr.is_subarray /\ hop.before.hdr.count >= 2
    /\ hop.before.hdr.dims = hnd[hop.src].hdr.dims
    /\ hop.before.buf # hnd[hop.src].buf

\* C5, amended: an assignment to a slice expression (dst(ranges) = src)
\* that is a view of the source's shape copies the source's elements one by
\* one, in row-major order, into the positions the view addresses - so the
\* sliced handle reads them, no other position changes, and with the source
\* in another buffer the view reads the source's elements - and rebinds
\* nothing; every other assignment, among them every assignment to a named
\* handle, rebinds the destination to the source's header and buffer and
\* changes no element.
C5_AssignIntoViewExpression ==
    hop.op \in {"assign", "assignview"} =>
        LET src == hnd[hop.src]
            dst == hop.before
            parent == hnd[hop.dst]
        IN IF hop.op = "assignview" /\ dst.hdr.is_subarray /\ dst.hdr.dims = src.hdr.dims
           THEN /\ hop.after = dst
                /\ heap = CopiedUpTo(hop.pre_heap, src, dst, dst.hdr.count)
                /\ \A b \in 1..2 : \A q \in 1..Len(heap[b]) :
                      (b # dst.buf \/ (q - 1) \notin Addressed(dst))
                         => heap[b][q] = hop.pre_heap[b][q]
                /\ src.buf # dst.buf =>
                      \A t \in Tuples(dst.hdr.dims) :
                         /\ ReadAt(heap, dst, t) = ReadAt(hop.pre_heap, src, t)
                         /\ \A u \in Tuples(parent.hdr.dims) :
                               DotPos(parent.hdr, u) = DotPos(dst.hdr, t) =>
                                  ElementAt(parent.hdr, heap[parent.buf], u)
                                      = ReadAt(hop.pre_heap, src, t)
           ELSE /\ hop.after = src
                /\ hop.op = "assign" => hnd[hop.dst] = src
                /\ heap = hop.pre_heap

\* A(ranges) = W with W a view of B of the same shape as A(ranges): the
\* elements of B arrive in A's buffer.
C5_Witness ==
    /\ hop.op = "assignview" /\ hop.dst = "A" /\ hop.src = "W"
    /\ hop.before.hdr.is_subarray /\ hop.before.hdr.count >= 2
    /\ hop.before.hdr.dims = hnd["W"].hdr.dims
    /\ hnd["W"].buf = 2 /\ hnd["W"].hdr.is_subarray
    /\ heap[1] # hop.pre_heap[1]

(***************************************************************************)
(* Claims about clone, reshape, resize, filter and find.                   *)
(***************************************************************************)
\* The subscript tuples of dims, the extents up to MaxCount.
AllTuples(dims) ==
    IF Len(dims) = 0 THEN {}
    ELSE {t \in [1..Len(dims) -> 0..(MaxCount - 1)] :
             \A i \in 1..Len(dims) : t[i] < dims[i]}

\* The subscript tuple of row-major rank r (from 0) in dims.
RankTuple(r, dims) == TupleAt(r, dims, RowMajor(Len(dims)))

\* The row-major rank of a subscript tuple in dims.
RankOf(t, dims) == CHOOSE r \in 0..(numel(dims) - 1) : RankTuple(r, dims) = t

\* The elements an Array reads, in row-major order of its subscript tuples.
RowSeq(h, arr) ==
    [r \in 1..arr.hdr.count |-> ReadAt(h, arr, RankTuple(r - 1, arr.hdr.dims))]

\* Every buffer of h0 is in h1, with the same elements.
Kept(h0, h1) == Len(h1) >= Len(h0) /\ \A b \in 1..Len(h0) : h1[b] = h0[b]

\* arr is an Array that is not a view, over a buffer allocated after h0.
Fresh(h0, arr, dims) ==
    /\ arr.hdr = HeaderOfDims(dims)
    /\ ~arr.hdr.is_subarray
    /\ arr.buf > Len(h0)

\* The buffers as the call left them (before the write that followed it).
OpHeap == IF sop.via = "none" THEN sheap ELSE sop.mid_heap

\* C14: reshape(A, new_dims) of a non-empty A with product(new_dims) =
\* A.count.  With new_dims = A.dims the result is A itself.  Otherwise, if A
\* is not a view the result is a row-major layout of new_dims over A's
\* buffer, and a write through the result (through A) is read through A
\* (through the result) at the tuple of the same row-major rank; if A is a
\* view the result is a row-major layout over a new buffer that holds A's
\* elements in A's row-major order, and a write through the result changes
\* no element of A's buffer.
C14_ReshapeSharing ==
    (sop.op = "reshape" /\ sa.hdr.usable /\ numel(sop.dims) = sa.hdr.count) =>
        /\ ~sop.threw
        /\ Kept(sop.pre_heap, OpHeap)
        /\ IF sop.dims = sa.hdr.dims
           THEN sop.res = sa /\ OpHeap = sop.pre_heap
           ELSE IF ~sa.hdr.is_subarray
           THEN /\ sop.res.hdr = HeaderOfDims(sop.dims)
                /\ sop.res.buf = sa.buf
                /\ OpHeap = sop.pre_heap
                /\ RowSeq(OpHeap, sop.res) = RowSeq(sop.pre_heap, sa)
                /\ sop.via = "res" =>
                      ReadAt(sheap, sa, RankTuple(RankOf(sop.subs, sop.dims),
                                                  sa.hdr.dims)) = 100
                /\ sop.via = "arg" =>
                      ReadAt(sheap, sop.res,
                             RankTuple(RankOf(sop.subs, sa.hdr.dims), sop.dims)) = 100
           ELSE /\ Fresh(sop.pre_heap, sop.res, sop.dims)
                /\ sop.res.buf # sa.buf
                /\ RowSeq(OpHeap, sop.res) = RowSeq(sop.pre_heap, sa)
                /\ sop.via = "res" =>
                      /\ Kept(sop.pre_heap, sheap)
                      /\ RowSeq(sheap, sa) = RowSeq(sop.pre_heap, sa)
                      /\ ReadAt(sheap, sop.res, sop.subs) = 100

\* A view reshaped, then written through the result.
C14_Witness ==
    /\ sop.op = "reshape" /\ sop.via = "res"
    /\ sa.hdr.is_subarray /\ sa.hdr.count = 4 /\ sa.hdr.offset > 0
    /\ sop.dims = <<4>>

\* An array that is not a view reshaped, then written through the result.
C14_WitnessShared ==
    /\ sop.op = "reshape" /\ sop.via = "res"
    /\ ~sa.hdr.is_subarray /\ sa.hdr.dims = <<3, 1, 2>>
    /\ sop.dims = <<2, 3>> /\ sop.subs = <<1, 0>>
    /\ sheap[1] = <<1, 2, 3, 100, 5, 6>>

C15_WitnessSame ==
    /\ sop.op = "resize" /\ sop.dims = sa.hdr.dims /\ sa.hdr.count = MaxCount
    /\ sop.res.buf = 2

\* C16: clone(A) of a non-empty A, view or not, is a row-major layout of
\* A's dims over a new buffer, reads A's element at every subscript tuple
\* and is not a view; a later write through the clone changes no element of
\* A's buffer and a later write through A changes no element of the clone's
\* buffer.  clone of an empty A is empty.
C16_CloneIndependent ==
    sop.op = "clone" =>
        /\ ~sop.threw
        /\ Kept(sop.pre_heap, OpHeap)
        /\ IF ~sa.hdr.usable
           THEN sop.res = NullHandle /\ OpHeap = sop.pre_heap
           ELSE /\ Fresh(sop.pre_heap, sop.res, sa.hdr.dims)
                /\ sop.res.hdr.dims = sa.hdr.dims
                /\ sop.res.buf # sa.buf
                /\ \A t \in AllTuples(sa.hdr.dims) :
                      ReadAt(OpHeap, sop.res, t) = ReadAt(sop.pre_heap, sa, t)
                /\ sop.via = "res" =>
                      /\ sheap[sa.buf] = sop.mid_heap[sa.buf]
                      /\ ReadAt(sheap, sop.res, sop.subs) = 100
                /\ sop.via = "arg" =>
                      /\ sheap[sop.res.buf] = sop.mid_heap[sop.res.buf]
                      /\ ReadAt(sheap, sa, sop.subs) = 100

\* A view cloned, then written through the clone.
C16_Witness ==
    /\ sop.op = "clone" /\ sop.via = "res"
    /\ sa.hdr.is_subarray /\ sa.hdr.offset > 0 /\ sa.hdr.count >= 2
    /\ sheap[2] # sop.mid_heap[2]

\* An empty view cloned.
C16_WitnessEmpty ==
    /\ sop.op = "clone" /\ sa.hdr.is_subarray /\ ~sa.hdr.usable

\* The elements of A that satisfy p, in A's row-major order.
Matching(h, arr, p) == SelectSeq(RowSeq(h, arr), LAMBDA v : Holds(p, v))

\* The flat buffer positions of the elements of A that satisfy p, in A's
\* row-major order.
MatchingPositions(h, arr, p) ==
    LET at(r) == RankTuple(r - 1, arr.hdr.dims)
        pick == SelectSeq([r \in 1..arr.hdr.count |-> r],
                          LAMBDA r : Holds(p, ReadAt(h, arr, at(r))))
    IN [k \in 1..Len(pick) |-> DotPos(arr.hdr, at(pick[k]))]

\* arr is a one-axis Array, not a view, over a new buffer, that reads the
\* sequence s; Array{} if s is empty.
IsVector(h0, h, arr, s) ==
    IF Len(s) = 0 THEN arr = NullHandle
    ELSE Fresh(h0, arr, <<Len(s)>>) /\ RowSeq(h, arr) = s

\* C18: filter(A, p) of any A, view or not, returns a one-axis array of as
\* many elements as A has elements satisfying p, which are those elements in
\* A's row-major order; an empty array when none satisfies p or A is empty;
\* A and its buffer are as before.
C18_FilterSelects ==
    sop.op = "filter" =>
        /\ ~sop.threw
        /\ Kept(sop.pre_heap, sheap)
        /\ IF ~sa.hdr.usable THEN sop.res = NullHandle
           ELSE /\ IsVector(sop.pre_heap, sheap, sop.res,
                            Matching(sop.pre_heap, sa, sop.p))
                /\ sop.res.hdr.count =
                      Cardinality({t \in AllTuples(sa.hdr.dims) :
                                      Holds(sop.p, ReadAt(sop.pre_heap, sa, t))})

\* A strided view filtered, some of its elements kept and some not.
C18_Witness ==
    /\ sop.op = "filter" /\ sop.p = "even"
    /\ sa.hdr.is_subarray /\ sa.hdr.strides # compute_strides(sa.hdr.dims)
    /\ sop.res.hdr.count = 1 /\ sa.hdr.count = 2

\* No element of a non-empty A satisfies p.
C18_WitnessNone ==
    /\ sop.op = "filter" /\ sa.hdr.count = 2 /\ sop.p = "even"
    /\ sop.res = NullHandle

\* The array of the example: S = A({1,2},{0},{0,1}), A of shape [3,1,2].
IsExampleSlice ==
    /\ sa.hdr = HeaderOfSlice(<<3, 1, 2>>, <<2, 2, 1>>, 0,
                              <<Interval(1, 2, 1), Interval(0, 0, 1),
                                Interval(0, 1, 1)>>)
    /\ sop.p = "nonzero"

\* find(A, p) gives the flat positions of the elements of A satisfying p in
\* A's row-major order, and A(find(A, p)) is shape-equal and element-equal
\* to filter(A, p).
FindGathers ==
    LET f == filter(sop.pre_heap, sa, sop.p)
    IN /\ ~sop.threw
       /\ Kept(sop.pre_heap, sheap)
       /\ IF ~sa.hdr.usable THEN sop.res = NullHandle
          ELSE /\ IsVector(sop.pre_heap, sheap, sop.res,
                           MatchingPositions(sop.pre_heap, sa, sop.p))
               /\ sop.res.hdr.usable =>
                     /\ sop.aux.hdr.dims = f.arr.hdr.dims
                     /\ RowSeq(sheap, sop.aux) = RowSeq(f.heap, f.arr)
               /\ ~sop.res.hdr.usable => f.arr = NullHandle

C19_WitnessStrided ==
    /\ sop.op = "find" /\ sop.p = "even"
    /\ sa.hdr.offset > 0 /\ sa.hdr.strides # compute_strides(sa.hdr.dims)
    /\ sop.res.hdr.usable /\ sop.res.hdr.count < sa.hdr.count

(***************************************************************************)
(* Claims about append, insert, remove, copy and transform.                *)
(***************************************************************************)
\* The subscript tuples of dims whose extents may be the sum of two extents.
JoinTuples(dims) ==
    IF Len(dims) = 0 THEN {}
    ELSE {t \in [1..Len(dims) -> 0..(2 * MaxDim - 1)] :
             \A i \in 1..Len(dims) : t[i] < dims[i]}

\* A and B are non-empty, of one rank, axis is one of its axes and their dims
\* agree everywhere except at axis.
Conforming(axis) ==
    /\ sa.hdr.usable /\ sb.hdr.usable
    /\ Len(sa.hdr.dims) = Len(sb.hdr.dims)
    /\ axis \in 0..(Len(sa.hdr.dims) - 1)
    /\ \A i \in 1..Len(sa.hdr.dims) : i # axis + 1 => sa.hdr.dims[i] = sb.hdr.dims[i]

\* The tuple t with d taken off its subscript on axis.
Shifted(t, axis, d) == [t EXCEPT ![axis + 1] = @ - d]

\* res has A's dims with B's extent added on axis, B's elements at the
\* subscripts k .. k + B.dims[axis] - 1 of axis and A's elements, in their
\* order, at the others; h0 are the buffers before the call, h1 after it.
InsertedAt(res, h0, h1, k, axis) ==
    LET a == sa.hdr.dims[axis + 1]
        b == sb.hdr.dims[axis + 1]
    IN /\ res.hdr.usable
       /\ res.hdr.dims = [i \in 1..Len(sa.hdr.dims) |->
                             IF i = axis + 1 THEN a + b ELSE sa.hdr.dims[i]]
       /\ \A t \in JoinTuples(res.hdr.dims) :
            ReadAt(h1, res, t) =
                IF t[axis + 1] < k THEN ReadAt(h0, sa, t)
                ELSE IF t[axis + 1] < k + b THEN ReadAt(h0, sb, Shifted(t, axis, k))
                ELSE ReadAt(h0, sa, Shifted(t, axis, b))

\* C11: append(A, B, axis) of non-empty A and B whose dims agree except at
\* axis returns an array with dims[axis] = A.dims[axis] + B.dims[axis] and
\* the other dims A's, whose element at a tuple with subscript j on axis is
\* A's at that tuple when j < A.dims[axis] and B's at the tuple with
\* j - A.dims[axis] otherwise; the buffers of A and B are as they were.
C11_AppendAlongAxis ==
    (sop.op = "append" /\ Conforming(sop.axis)) =>
        /\ ~sop.threw
        /\ InsertedAt(sop.res, sop.pre_heap, sheap, sa.hdr.dims[sop.axis + 1], sop.axis)
        /\ Kept(sop.pre_heap, sheap)
        /\ sop.res.buf > Len(sop.pre_heap)

\* An append of a strided slice A and B along the second of two or more axes.
C11_Witness ==
    /\ sop.op = "append" /\ Conforming(sop.axis)
    /\ sop.axis = 1
    /\ sa.hdr.is_subarray /\ sa.hdr.strides # compute_strides(sa.hdr.dims)
    /\ sa.hdr.count > 1 /\ sb.hdr.count > 1
    /\ sop.res.hdr.count = sa.hdr.count + sb.hdr.count

\* An append along the first axis of two arrays with different extents on it.
C11_WitnessFirstAxis ==
    /\ sop.op = "append" /\ Conforming(sop.axis)
    /\ sop.axis = 0
    /\ Len(sa.hdr.dims) > 1
    /\ sa.hdr.dims[1] # sb.hdr.dims[1]
    /\ sop.res.hdr.usable

\* C12 (as stated): insert(A, B, position, axis) of conforming A and B with
\* 0 <= position <= A.dims[axis] has B's elements at the subscripts
\* [position, position + B.dims[axis]) of axis and A's elements, in order,
\* at the remaining ones.
C12_InsertAtPosition ==
    (/\ sop.op = "insert" /\ Conforming(sop.axis)
     /\ sop.ind \in 0..sa.hdr.dims[sop.axis + 1]) =>
        InsertedAt(sop.res, sop.pre_heap, sheap, sop.ind, sop.axis)

\* C12: insert(A, B, position, axis) of conforming A and B with
\* position >= 0 has B's elements at the subscripts [k, k + B.dims[axis]) of
\* axis, k = position mod A.dims[axis] (position itself when it is less than
\* A.dims[axis], 0 when it is A.dims[axis]), and A's elements, in order, at
\* the remaining ones; dims[axis] = A.dims[axis] + B.dims[axis].
C12_InsertAtWrappedPosition ==
    (sop.op = "insert" /\ Conforming(sop.axis)) =>
        /\ ~sop.threw
        /\ sop.res.buf > Len(sop.pre_heap)
        /\ InsertedAt(sop.res, sop.pre_heap, sheap,
                      EMod(sop.ind, sa.hdr.dims[sop.axis + 1]), sop.axis)

\* An insert in the middle of A: elements of A on both sides of B's.
C12_Witness ==
    /\ sop.op = "insert" /\ Conforming(sop.axis)
    /\ sop.ind > 0 /\ sop.ind < sa.hdr.dims[sop.axis + 1]
    /\ Len(sa.hdr.dims) > 1
    /\ sop.res.hdr.count = sa.hdr.count + sb.hdr.count

\* An insert at position A.dims[axis]: B's elements come first.
C12_WitnessWrapped ==
    /\ sop.op = "insert" /\ Conforming(sop.axis)
    /\ sop.ind = sa.hdr.dims[sop.axis + 1]
    /\ sop.res.hdr.usable
    /\ \A t \in JoinTuples(sop.res.hdr.dims) :
         t[sop.axis + 1] = 0 => ReadAt(sheap, sop.res, t) > 10

\* C13: for non-empty A, an axis of A, 0 <= k < A.dims[axis] and B
\* conforming to A, remove(insert(A, B, k, axis), k, B.dims[axis], axis) has
\* A's dims and A's element at every tuple.
C13_RemoveUndoesInsert ==
    (/\ sop.op = "remove" /\ Conforming(sop.axis)
     /\ sop.ind \in 0..(sa.hdr.dims[sop.axis + 1] - 1)) =>
        /\ ~sop.threw
        /\ sop.count = sb.hdr.dims[sop.axis + 1]
        /\ sop.res.hdr.dims = sa.hdr.dims
        /\ \A t \in JoinTuples(sa.hdr.dims) :
             ReadAt(sheap, sop.res, t) = ReadAt(sheap, sa, t)

\* insert in the middle of a strided slice A, then remove.
C13_Witness ==
    /\ sop.op = "remove" /\ Conforming(sop.axis)
    /\ sop.ind > 0 /\ sop.ind < sa.hdr.dims[sop.axis + 1]
    /\ sa.hdr.is_subarray
    /\ sop.aux.hdr.count = sa.hdr.count + sb.hdr.count
    /\ sop.res.hdr.count = sa.hdr.count

\* insert at position 0 along the second axis, then remove.
C13_WitnessFront ==
    /\ sop.op = "remove" /\ Conforming(sop.axis)
    /\ sop.ind = 0 /\ sop.axis = 1
    /\ sop.res.hdr.count = sa.hdr.count
    /\ sa.hdr.count > 1

\* C17 (as stated): copy(src, dst) of non-empty src and dst of any shapes
\* writes src's element of row-major rank r into dst's element of rank r for
\* every r < min(src.count, dst.count), leaves the remaining elements of dst,
\* dst's layout and src as they were.
C17_CopyByRank ==
    (sop.op = "copy" /\ sa.hdr.usable /\ sb.hdr.usable) =>
        LET n == Min(sa.hdr.count, sb.hdr.count)
        IN /\ \A r \in 1..sb.hdr.count :
                RowSeq(sheap, sb)[r] = IF r <= n THEN RowSeq(sop.pre_heap, sa)[r]
                                       ELSE RowSeq(sop.pre_heap, sb)[r]
           /\ sheap[sa.buf] = sop.pre_heap[sa.buf]
           /\ Len(sheap) = Len(sop.pre_heap)

\* copy of a src of dims <<3>> into a dst of dims <<3, 1, 2>>: nothing is
\* written.
C17_WitnessNotContained ==
    /\ sop.op = "copy"
    /\ sa.hdr.dims = <<3>> /\ sb.hdr.dims = <<3, 1, 2>>
    /\ sheap = sop.pre_heap

C20_WitnessEqualDims ==
    /\ sop.op = "plus_assign"
    /\ ~sop.threw
    /\ sa.buf = 3
    /\ \A t \in JoinTuples(sa.hdr.dims) :
         ReadAt(sheap, sa, t) = ReadAt(sheap, sop.aux, t) + ReadAt(sheap, sb, t)

(***************************************************************************)
(* Claims about the assignment of a value.                                 *)
(***************************************************************************)
\* The positions of its buffer an Array addresses, one for each of its
\* subscript tuples.
AddressedBy(arr) == {DotPos(arr.hdr, t) : t \in AllTuples(arr.hdr.dims)}

\* C21: arr = value sets the element at every subscript tuple of arr to the
\* value and changes no other position of any buffer: the elements of the
\* parent of a view outside the view keep their values; for an empty arr
\* nothing changes and arr is as it was, empty.
C21_AssignValue ==
    sop.op = "assign_value" =>
        LET arr == sop.aux
        IN /\ sop.res = arr
           /\ arr \in {sa, NullHandle}
           /\ Len(sheap) = Len(sop.pre_heap)
           /\ \A b \in 1..Len(sheap) :
                /\ Len(sheap[b]) = Len(sop.pre_heap[b])
                /\ \A p \in 1..Len(sheap[b]) :
                     sheap[b][p] =
                         IF arr.hdr.usable /\ b = arr.buf /\ (p - 1) \in AddressedBy(arr)
                         THEN 100 ELSE sop.pre_heap[b][p]
           /\ arr.hdr.usable =>
                /\ Cardinality(AddressedBy(arr)) = arr.hdr.count
                /\ \A t \in AllTuples(arr.hdr.dims) : ReadAt(sheap, arr, t) = 100

\* A value assigned to a strided view with an offset that leaves elements of
\* its parent out.
C21_Witness ==
    /\ sop.op = "assign_value"
    /\ sop.aux = sa /\ sa.hdr.is_subarray /\ sa.hdr.offset > 0
    /\ sa.hdr.count >= 2 /\ sa.hdr.count < Len(sheap[1])
    /\ sa.hdr.strides # compute_strides(sa.hdr.dims)
    /\ \E p \in 1..Len(sheap[1]) : sheap[1][p] # 100

\* A value assigned to an empty view.
C21_WitnessEmpty ==
    /\ sop.op = "assign_value"
    /\ sop.aux = sa /\ sa.hdr.is_subarray /\ ~sa.hdr.usable
    /\ sheap = sop.pre_heap


(***************************************************************************)
(* Claims about append and remove without an axis.                         *)
(***************************************************************************)
\* C23 (as stated): append(A, B) of non-empty A and B of any shapes and
\* ranks returns an array of dims <<A.count + B.count>> whose first A.count
\* elements are A's in row-major order and whose other elements are B's in
\* row-major order; with one operand empty it is a clone of the other.
C23_AppendFlat ==
    sop.op = "append_flat" =>
        /\ ~sop.threw
        /\ (sa.hdr.usable /\ sb.hdr.usable) =>
              /\ sop.res.hdr.dims = <<sa.hdr.count + sb.hdr.count>>
              /\ RowSeq(sheap, sop.res) = RowSeq(sop.pre_heap, sa) \o RowSeq(sop.pre_heap, sb)
        /\ (sa.hdr.usable /\ ~sb.hdr.usable) =>
              /\ sop.res.hdr.dims = sa.hdr.dims
              /\ RowSeq(sheap, sop.res) = RowSeq(sop.pre_heap, sa)
        /\ (~sa.hdr.usable /\ sb.hdr.usable) =>
              /\ sop.res.hdr.dims = sb.hdr.dims
              /\ RowSeq(sheap, sop.res) = RowSeq(sop.pre_heap, sb)

\* append(A, B) with B of one axis: the result is A's elements, then B's.
C23_WitnessVector ==
    /\ sop.op = "append_flat"
    /\ sa.hdr.usable /\ Len(sa.hdr.dims) > 1
    /\ sb.hdr.usable /\ Len(sb.hdr.dims) = 1 /\ sb.hdr.count > 1
    /\ RowSeq(sheap, sop.res) = RowSeq(sop.pre_heap, sa) \o RowSeq(sop.pre_heap, sb)

\* C24 (as stated): remove(A, ind, count) of a non-empty A with ind >= 0,
\* count >= 1 and ind + count within A.count (taken here as less than
\* A.count, the values for which remove does not throw) returns an array of
\* one axis with A.count - count elements: A's row-major elements without
\* those of ranks ind .. ind + count - 1, in their order; A's buffer is as it
\* was.
C24_RemoveFlat ==
    (/\ sop.op = "remove_flat" /\ sa.hdr.usable
     /\ sop.ind + sop.count < sa.hdr.count) =>
        LET a == RowSeq(sop.pre_heap, sa)
            n == sa.hdr.count - sop.count
        IN /\ ~sop.threw
           /\ Kept(sop.pre_heap, sheap)
           /\ sop.res.hdr.dims = <<n>>
           /\ RowSeq(sheap, sop.res) =
                  [r \in 1..n |-> IF r <= sop.ind THEN a[r] ELSE a[r + sop.count]]

\* remove(A, ind, count) with ind + count = A.count throws.
C24_WitnessThrows ==
    /\ sop.op = "remove_flat" /\ sa.hdr.usable
    /\ sop.ind + sop.count = sa.hdr.count
    /\ sop.threw

\* The example of the claim: A = 1..6, ind = 3, count = 2 gives 1, 2, 3, 6.
C24_WitnessExample ==
    /\ sop.op = "remove_flat"
    /\ sa.hdr.dims = <<3, 1, 2>> /\ sheap[1] = Iota(6)
    /\ sop.ind = 3 /\ sop.count = 2
    /\ RowSeq(sheap, sop.res) = <<1, 2, 3, 6>>


(***************************************************************************)
(* Claims about reduce with an axis that is not an axis of the array.      *)
(***************************************************************************)
\* C25 (as stated): reduce(A, f, axis) with axis >= rank(A) has the dims and
\* the elements of reduce(A, f, rank - 1).
C25_ReduceLastAxis ==
    (oop.op = "reduce" /\ oarr.usable /\ oop.axis >= Len(oarr.dims)) =>
        LET last == reduce(oarr, obuf, oop.f, Len(oarr.dims) - 1)
        IN /\ oop.res.hdr.dims = last.hdr.dims
           /\ oop.res.data = last.data

\* C25: reduce(A, f, axis) with axis >= rank(A) reduces along the axis
\* axis mod rank: the result has A's dims without that axis (<<1>> for a
\* 1-D A), and its element at each tuple is the fold by f of A's elements
\* along that axis; for A = 1..6 of shape [3,1,2], the sum and axis = 3 it
\* is [1,2]:[9,12], the result of axis 0.
C25_ReduceAxisWraps ==
    (oop.op = "reduce" /\ oarr.usable /\ oop.axis >= Len(oarr.dims)) =>
        LET a == EMod(oop.axis, Len(oarr.dims))
            res == oop.res
        IN /\ res.hdr = HeaderOfDims(WithoutAxis(oarr.dims, a))
           /\ Len(res.data) = res.hdr.count
           /\ res.written = 0..(res.hdr.count - 1)
           /\ \A t \in Tuples(res.hdr.dims) :
                 ElementAt(res.hdr, res.data, t)
                     = FoldAlong(oop.f, t, a, oarr.dims[a + 1] - 1)
           /\ (oarr = HeaderOfDims(<<3, 1, 2>>) /\ oop.f = "sum" /\ oop.axis = 3) =>
                 res.hdr.dims = <<1, 2>> /\ res.data = <<9, 12>>

\* The sum of 1..6 of shape [3,1,2] with axis = 3: the result of axis 0.
C25_Witness ==
    /\ oop.op = "reduce" /\ oop.f = "sum" /\ oop.axis = 3
    /\ oarr = HeaderOfDims(<<3, 1, 2>>)
    /\ oop.res.hdr.dims = <<1, 2>> /\ oop.res.data = <<9, 12>>
    /\ oop.res.data # reduce(oarr, obuf, "sum", 2).data

\* reduce of a view of two axes with axis = 3: along axis 1, the last.
C25_WitnessLast ==
    /\ oop.op = "reduce" /\ oop.axis = 3
    /\ oarr.is_subarray /\ Len(oarr.dims) = 2 /\ oarr.count > 2
    /\ oop.res.hdr.dims = <<oarr.dims[1]>>

(***************************************************************************)
(* Claims about a cursor moved by a step greater than one.                 *)
(***************************************************************************)
\* The order the cursor of the walk visits the axes in.
StrideOrder == IF ckind = "order" THEN carg ELSE RowMajor(Len(carr.dims))

\* The cursor of the walk is at the position that is crank unit steps from
\* the start when crank is a position of the array, and is out of range
\* before the start (its slowest subscript at the excluded minimum) when
\* crank is negative.
StrideOnTrack ==
    /\ crank \in 0..(carr.count - 1) =>
          InRange(cur) /\ cur.subs = TupleAt(crank, carr.dims, StrideOrder)
    /\ crank < 0 =>
          /\ ~InRange(cur)
          /\ cur.subs[OuterAxis(cur) + 1]
                = cur.minimum_excluded[OuterAxis(cur) + 1]

\* C26 (as stated): for every step k >= 1, a cursor advanced by k from its
\* start until it is out of range and then retreated by k visits, going
\* back, the positions it visited going forward (those a multiple of k unit
\* steps from the start) in reverse order, and ends out of range before the
\* start.
C26_StrideRoundTrip ==
    ckind # "none" => StrideOnTrack

\* C26 (amended): the same for every step k that divides the number of
\* elements, so that the last advance ends exactly one position past the
\* last element.
C26_StrideRoundTripDividing ==
    (ckind # "none" /\ carr.count % cstep = 0) => StrideOnTrack

\* dims [3,1,2] walked with step 2: back at the first position after the
\* positions 0, 2, 4 forward and 4, 2 backward.
C26_Witness ==
    /\ ckind = "default" /\ carr.dims = <<3, 1, 2>> /\ cstep = 2
    /\ cmove = "retreat" /\ crank = 0 /\ InRange(cur)

\* The end of such a walk: out of range before the start.
C26_WitnessEnd ==
    /\ ckind = "order" /\ carr.count = 6 /\ cstep = 3
    /\ cmove = "retreat" /\ crank < 0 /\ ~InRange(cur)

\* A walk whose step does not divide the number of elements, going back.
C26_WitnessNotDividing ==
    /\ ckind = "default" /\ carr.count % cstep # 0
    /\ cmove = "retreat" /\ InRange(cur)

(***************************************************************************)
(* Claims about a slice with more intervals than axes.                     *)
(***************************************************************************)
\* C27: a slice of a layout of rank N with more than N intervals returns the
\* layout (dims, strides, offset, and so the elements) that the slice with
\* the first N intervals returns, and computing it reads and writes no
\* entry of dims or strides at an index >= N.
C27_SurplusIgnored ==
    lop.op = "surplus" =>
        LET n == Len(lop.parent.dims)
        IN /\ ~lop.fault
           /\ lay = HeaderOfSlice(lop.parent.dims, lop.parent.strides,
                                  lop.parent.offset, SubSeq(lop.ivs, 1, n))
           /\ \A i \in lop.dims_touched \cup lop.strides_touched : i < n

\* The slice of the test: dims [3,1,2] sliced with [0,2,2], [0], [0] and a
\* fourth interval, returning the layout of the first three.
C27_WitnessReturned ==
    /\ lop.op = "surplus" /\ ~lop.fault
    /\ lop.parent.dims = <<3, 1, 2>> /\ Len(lop.ivs) = 4
    /\ SubSeq(lop.ivs, 1, 3)
         = <<Interval(0, 2, 2), Interval(0, 0, 1), Interval(0, 0, 1)>>
    /\ lay = HeaderOfSlice(lop.parent.dims, lop.parent.strides,
                           lop.parent.offset, SubSeq(lop.ivs, 1, 3))
    /\ 3 \in lop.strides_touched

(***************************************************************************)
(* Claims about the assignment to a named handle that holds a view.        *)
(***************************************************************************)
\* C28: an assignment, by copy or by move, to a named handle that holds a
\* view - of the source's shape or not - leaves the handle with the header
\* and the buffer of the source and changes no element of any buffer, so
\* none of the view's former parent; elements change only by an assignment
\* to a slice expression that is a view of the source's shape.
C28_NamedViewRebinds ==
    /\ (hop.op \in {"assign", "moveassign"} /\ hop.before.hdr.is_subarray) =>
          /\ hnd[hop.dst] = hop.after
          /\ hnd[hop.dst].buf = hop.after.buf
          /\ heap = hop.pre_heap
    /\ (hop.op # "none" /\ heap # hop.pre_heap) =>
          /\ hop.op \in {"assignview", "moveassignview"}
          /\ AssignCopies(hop.before.hdr, hop.after.hdr.dims)

\* V, a view of A, assigned W, a view of B of the same shape: V reads B's
\* elements and A's buffer is as before.
C28_Witness ==
    /\ hop.op = "assign" /\ hop.dst = "V" /\ hop.src = "W"
    /\ hop.before.hdr.is_subarray /\ hop.before.buf = 1
    /\ hop.before.hdr.count >= 2
    /\ hop.before.hdr.dims = hop.after.hdr.dims
    /\ hop.after.buf = 2 /\ hnd["V"].buf = 2
    /\ heap[1] = hop.pre_heap[1]

\* The same by move: W is left empty.
C28_WitnessMove ==
    /\ hop.op = "moveassign" /\ hop.dst = "V" /\ hop.src = "W"
    /\ hop.before.hdr.is_subarray /\ hop.before.buf = 1
    /\ hop.before.hdr.dims = hop.after.hdr.dims /\ hop.after.buf = 2
    /\ hnd["V"].buf = 2 /\ hnd["W"] = NullHandle

\* An assignment to a slice expression that changed elements of A's buffer.
C28_WitnessThrough ==
    /\ hop.op = "moveassignview" /\ hop.dst = "A"
    /\ heap[1] # hop.pre_heap[1]

(***************************************************************************)
(* Claims about the positions a slice addresses in its buffer.             *)
(***************************************************************************)
\* C29: whatever slices (of slices, with negative or wrapping bounds, with
\* steps > 1, with fewer intervals than axes) led from an array built from a
\* shape to a handle, every subscript tuple the handle is given resolves to
\* a position p of the buffer it shares with that array:
\* 0 <= p < the number of elements of the buffer.
C29_ViewWithinBuffer ==
    /\ sa.buf = 1
    /\ sop.op = "access" =>
          /\ 0 <= sop.ind
          /\ sop.ind < Len(sheap[sa.buf])

\* A slice of a strided slice, taken with fewer intervals than axes, asked
\* for its last element with subscripts that wrap.
C29_Witness ==
    /\ sop.op = "access" /\ sslices = 2
    /\ sa.hdr.usable /\ Len(sa.hdr.dims) = 2 /\ sa.hdr.count >= 2
    /\ \E i \in 1..2 : sa.hdr.strides[i] > 1 /\ sa.hdr.dims[i] > 1
    /\ sa.hdr.offset > 0
    /\ sop.subs = <<-1, -1>>
    /\ sop.ind = Len(sheap[1]) - 1

\* A slice that came out empty, asked for an element.
C29_WitnessEmpty ==
    /\ sop.op = "access" /\ ~sa.hdr.usable /\ sa.hdr.is_subarray

(***************************************************************************)
(* Claims about transform of empty arrays.                                 *)
(***************************************************************************)
\* The operands of the call are empty: A and B of transform(A, B, func), A
\* of the calls with a scalar.
VoidOperands ==
    /\ sop.op \in {"transform", "transform_scalar", "scalar_transform"}
    /\ ~sa.hdr.usable
    /\ sop.op = "transform" => ~sb.hdr.usable

\* C30: transform of two empty arrays, and of an empty array and a scalar
\* in either order, returns an empty array, calls func on no element, and
\* its cursor reads no entry of a list of no subscripts.
C30_EmptyTransform ==
    VoidOperands =>
        /\ ~sop.threw /\ ~sop.fault
        /\ ~sop.res.hdr.usable /\ sop.res.hdr.count = 0
        /\ sop.evals = 0
        /\ sop.void_reads = {}

\* transform of two empty arrays whose cursor was asked and gave false: an
\* empty array came back and func was not called.
C30_WitnessReturned ==
    /\ VoidOperands /\ sop.op = "transform"
    /\ ~sop.fault /\ sop.evals = 0 /\ ~sop.res.hdr.usable
    /\ sop.void_reads = {0}

\* transform of a non-empty array and a scalar: func was called on every
\* element and no list without entries was read.
C30_WitnessFilled ==
    /\ sop.op = "transform_scalar" /\ sa.hdr.usable /\ sa.hdr.is_subarray
    /\ sop.evals = sa.hdr.count /\ sop.void_reads = {}
    /\ \A t \in Tuples(sa.hdr.dims) :
          ReadAt(sheap, sop.res, t) = func(ReadAt(sheap, sa, t), Scalar)

(***************************************************************************)
(* Claims about the lifetime of the buffers.                               *)
(***************************************************************************)
\* The handles that reference buffer b.
Referencing(b) == {h \in Handles : hnd[h].buf = b}

\* C22: after any construction, slicing, copy, move, assignment and
\* destruction of handles, the buffer of every live non-empty handle, view
\* or not, is allocated and holds every position the handle addresses (it
\* can be read and written through the handle, whatever became of the
\* handle it was sliced from); a buffer is released only when no handle
\* references it any more.
C22_BufferOutlivesViews ==
    /\ \A h \in Handles :
          hnd[h].hdr.usable =>
             /\ hnd[h].buf \in 1..Len(heap)
             /\ hrefs[hnd[h].buf].allocated
             /\ \A t \in Tuples(hnd[h].hdr.dims) :
                   DotPos(hnd[h].hdr, t) < Len(heap[hnd[h].buf])
    /\ \A b \in 1..Len(hrefs) :
          /\ hrefs[b].owners = Cardinality(Referencing(b))
          /\ hrefs[b].allocated <=> Referencing(b) # {}

\* V, a view of the buffer A was built with, while A itself is gone
\* (destroyed) and no other handle holds the buffer.
C22_Witness ==
    /\ hnd["V"].hdr.usable /\ hnd["V"].hdr.is_subarray /\ hnd["V"].buf = 1
    /\ hnd["A"] = NullHandle
    /\ Referencing(1) = {"V"}
    /\ hrefs[1].allocated

\* A buffer released after its last owner was rebound: A and its view V
\* both reassigned.
C22_WitnessReleased ==
    /\ ~hrefs[1].allocated /\ Referencing(1) = {}
    /\ hnd["A"].buf = 2 /\ hnd["V"].hdr.usable

====
